---- MODULE Spec2Model ----
(***************************************************************************)
(* A model of analyzer-bot: the fallback risk scorer                       *)
(* (processors/risk_calculator.py), the proximity value extractor and the  *)
(* project data extractor (processors/excel_reader.py) and the remote risk *)
(* analyzer with its fallback (processors/ai_client.py).                   *)
(*                                                                         *)
(* Numbers are fixed-point: the integer n stands for n / Unit, so that a    *)
(* value has one decimal more than round(x, 2) keeps.                      *)
(* The four risk levels are written Low, Medium, High, Critical for the    *)
(* source's literals "Низкий", "Средний", "Высокий", "Критический".        *)
(***************************************************************************)
EXTENDS Integers, Sequences, FiniteSets, TLC

VARIABLES
    phase,        \* which call of the component under study has happened
    inp,          \* the seven numeric inputs of calculate_risk_score
    risk_score,   \* the value calculate_risk_score returned (Unset before)
    risk_level,   \* the value score_to_risk_level returned ("unset" before)
    sheet,        \* a worksheet: its non-empty cells, <<row, column>> -> cell
    near,         \* what extract_value_near_cell returned
    request,      \* the latest call of analyze_risks: its inputs and its seed
    prev_request, \* the call before it
    reply,        \* what the remote service did with the latest request
    analysis,     \* what analyze_risks_with_fallback returned or raised
    workbook,     \* the Excel file handed to extract_project_data
    extraction,    \* what extract_project_data returned or raised
    files,        \* the files of the directory, path -> file
    report_call,  \* the latest call of create_risk_analysis_sheet
    report,        \* what that call returned or raised
    flow,         \* handle_document: each workflow's position, document and the paths it used
    old,          \* the files older than the cleanup limit
    shared,        \* the paths two workflows in flight both used
    cache,        \* AnalysisCache: the entry file of each key
    cache_call,   \* the last call of one caller: operation, key, the cache before, the value
    calls,        \* the calls in progress of each concurrent caller
    completed,     \* the results that completed sets stored under each key
    find,          \* find_cell_by_text: the worksheet, the search made on it and its result
    fallback      \* calculate_risk_fallback: the project data and the result

scoreVars == <<inp, risk_score, risk_level>>
nearVars == <<sheet, near>>
remoteVars == <<request, prev_request, reply, analysis>>
extractVars == <<workbook, extraction>>
reportVars == <<files, report_call, report>>
workflowVars == <<flow, old, shared>>
cacheVars == <<cache, cache_call, calls, completed>>
findVars == <<find>>
fallbackVars == <<fallback>>
vars == <<phase, scoreVars, nearVars, remoteVars, extractVars, reportVars, workflowVars, cacheVars, findVars, fallbackVars>>

\* A score that has not been computed yet.
Unset == 0 - 1000

\* round(x, 2): the decimals the remote analyzer's normalization keeps.
Decimals == 2

\* The integer that stands for 1.0: one decimal more than Decimals.
Unit == 10 ^ (Decimals + 1)

(***************************************************************************)
(* processors/risk_calculator.py                                           *)
(***************************************************************************)

\* The discount rates d in 0..100, multiples of 0.5, for which the binary64
\* product d * 1.1 lies above the exact product (1.1 is not a binary
\* fraction: 25 * 1.1 is 27.500000000000004, 50 * 1.1 is 55.00000000000001).
\* For no such d does it lie below.
FloatRoundsUp == {25 * Unit, 45 * Unit, 50 * Unit, 55 * Unit, 85 * Unit, 90 * Unit, 95 * Unit, 100 * Unit}

\* irr < discount_rate * 1.1, as binary64 evaluates it when both are
\* multiples of 0.5 and discount_rate is in 0..100.
LessThanTimes1_1(x, d) ==
    \/ 10 * x < 11 * d
    \/ 10 * x = 11 * d /\ d \in FloatRoundsUp

Min(a, b) == IF a <= b THEN a ELSE b

\* A scorer that forgets the cap of 100.
calculate_risk_score_uncapped(npv, irr, payback_period, debt_share, debt_rate, construction_years, discount_rate) ==
    (IF npv < 0 THEN 40 ELSE IF npv < 50 * Unit THEN 20 ELSE 0)
    + (IF irr < discount_rate THEN 30
       ELSE IF LessThanTimes1_1(irr, discount_rate) THEN 15 ELSE 0)
    + (IF payback_period > 15 * Unit THEN 30 ELSE IF payback_period > 10 * Unit THEN 20 ELSE 0)
    + (IF debt_share > 70 * Unit THEN 35 ELSE IF debt_share > 50 * Unit THEN 25 ELSE 0)
    + (IF debt_rate > 20 * Unit THEN 30 ELSE IF debt_rate > 15 * Unit THEN 20 ELSE 0)
    + (IF construction_years > 7 * Unit THEN 25
       ELSE IF construction_years > 5 * Unit THEN 15 ELSE 0)
    + (IF discount_rate > 25 * Unit THEN 20 ELSE IF discount_rate > 20 * Unit THEN 10 ELSE 0)

\* A scorer whose payback rows are tested in the wrong order, so that the
\* second row shadows the first.
calculate_risk_score_shadowed(npv, irr, payback_period, debt_share, debt_rate, construction_years, discount_rate) ==
    Min(100,
        (IF npv < 0 THEN 40 ELSE IF npv < 50 * Unit THEN 20 ELSE 0)
        + (IF irr < discount_rate THEN 30
           ELSE IF LessThanTimes1_1(irr, discount_rate) THEN 15 ELSE 0)
        + (IF payback_period > 10 * Unit /\ payback_period <= 15 * Unit THEN 30
           ELSE IF payback_period > 15 * Unit THEN 20 ELSE 0)
        + (IF debt_share > 70 * Unit THEN 35 ELSE IF debt_share > 50 * Unit THEN 25 ELSE 0)
        + (IF debt_rate > 20 * Unit THEN 30 ELSE IF debt_rate > 15 * Unit THEN 20 ELSE 0)
        + (IF construction_years > 7 * Unit THEN 25
           ELSE IF construction_years > 5 * Unit THEN 15 ELSE 0)
        + (IF discount_rate > 25 * Unit THEN 20 ELSE IF discount_rate > 20 * Unit THEN 10 ELSE 0))

calculate_risk_score(npv, irr, payback_period, debt_share, debt_rate, construction_years, discount_rate) ==
    Min(100,
        (IF npv < 0 THEN 40 ELSE IF npv < 50 * Unit THEN 20 ELSE 0)
        + (IF irr < discount_rate THEN 30
           ELSE IF LessThanTimes1_1(irr, discount_rate) THEN 15 ELSE 0)
        + (IF payback_period > 15 * Unit THEN 30 ELSE IF payback_period > 10 * Unit THEN 20 ELSE 0)
        + (IF debt_share > 70 * Unit THEN 35 ELSE IF debt_share > 50 * Unit THEN 25 ELSE 0)
        + (IF debt_rate > 20 * Unit THEN 30 ELSE IF debt_rate > 15 * Unit THEN 20 ELSE 0)
        + (IF construction_years > 7 * Unit THEN 25
           ELSE IF construction_years > 5 * Unit THEN 15 ELSE 0)
        + (IF discount_rate > 25 * Unit THEN 20 ELSE IF discount_rate > 20 * Unit THEN 10 ELSE 0))

RiskLevels == {"Low", "Medium", "High", "Critical"}

\* A bucketing whose first breakpoint is strict.
score_to_risk_level_strict(score) ==
    IF score < 30 THEN "Low"
    ELSE IF score <= 60 THEN "Medium"
    ELSE IF score <= 85 THEN "High"
    ELSE "Critical"

score_to_risk_level(score) ==
    IF score <= 30 THEN "Low"
    ELSE IF score <= 60 THEN "Medium"
    ELSE IF score <= 85 THEN "High"
    ELSE "Critical"

\* calculate_risk_score applied to a record of the seven inputs.
ScoreOf(p) ==
    calculate_risk_score(p.npv, p.irr, p.payback_period, p.debt_share,
                         p.debt_rate, p.construction_years, p.discount_rate)

(***************************************************************************)
(* processors/excel_reader.py: worksheets and cells                        *)
(*                                                                         *)
(* A worksheet is the function from the coordinates <<row, column>> of its *)
(* non-empty cells to their values.  A cell value is a record:             *)
(*   t    "num" (int or float), "str", or "other" (a date: neither a       *)
(*        number nor a string); "none" for the empty cell;                 *)
(*   form of a string, what parsing makes of it:                           *)
(*        "numeric"   float(s) succeeds ("12.5"),                          *)
(*        "embedded"  float(s) fails and the pattern -?\d+\.?\d* finds a   *)
(*                    number once ',' is '.' and '%' is dropped ("30%"),   *)
(*        "plain"     float(s) fails and the pattern finds nothing;        *)
(*   v    the number (of a "num" cell, of float(s), or the first match);   *)
(*   pats the search texts the lower-cased text contains;                  *)
(*   text the text of a string, stripped (a placeholder where no search    *)
(*        reads it).                                                       *)
(***************************************************************************)
EmptyCell == [t |-> "none", form |-> "none", v |-> 0, pats |-> {}, text |-> ""]
NumCell(n) == [t |-> "num", form |-> "numeric", v |-> n, pats |-> {}, text |-> ""]
NumericStr(n) == [t |-> "str", form |-> "numeric", v |-> n, pats |-> {}, text |-> "digits"]
EmbeddedStr(n, ps) == [t |-> "str", form |-> "embedded", v |-> n, pats |-> ps, text |-> "words and digits"]
PlainStr(ps) == [t |-> "str", form |-> "plain", v |-> 0, pats |-> ps, text |-> "words"]
OtherCell == [t |-> "other", form |-> "none", v |-> 0, pats |-> {}, text |-> ""]

\* A string cell whose text matters: a label, a project type.
Label(text, ps) == [t |-> "str", form |-> "plain", v |-> 0, pats |-> ps, text |-> text]
LabelWithNumber(text, n, ps) == [t |-> "str", form |-> "embedded", v |-> n, pats |-> ps, text |-> text]

\* worksheet.cell(row=r, column=c).value
CellValue(ws, r, c) ==
    IF <<r, c>> \in DOMAIN ws THEN ws[<<r, c>>] ELSE EmptyCell

NotFound == [found |-> FALSE, value |-> 0, r |-> 0, c |-> 0, how |-> "none"]
Found(n, r, c, how) == [found |-> TRUE, value |-> n, r |-> r, c |-> c, how |-> how]

\* float(value): a number, or a string float() accepts.
FloatOf(cell) ==
    IF cell.t = "num" \/ (cell.t = "str" /\ cell.form = "numeric")
    THEN [ok |-> TRUE, value |-> cell.v]
    ELSE [ok |-> FALSE, value |-> 0]

\* What one candidate of the eight offsets yields: float(value), and for a
\* string float() refuses, the first number the pattern finds in it.
ParseNearCell(cell) ==
    IF cell.t = "none" THEN [ok |-> FALSE, value |-> 0, how |-> "none"]
    ELSE IF FloatOf(cell).ok THEN [ok |-> TRUE, value |-> cell.v, how |-> "near"]
    ELSE IF cell.t = "str" /\ cell.form = "embedded"
         THEN [ok |-> TRUE, value |-> cell.v, how |-> "near_text"]
    ELSE [ok |-> FALSE, value |-> 0, how |-> "none"]

\* What one cell of the ray search yields: float(value) only.
ParseRayCell(cell) ==
    IF cell.t # "none" /\ FloatOf(cell).ok
    THEN [ok |-> TRUE, value |-> cell.v]
    ELSE [ok |-> FALSE, value |-> 0]

\* The eight offsets with the cell below tried first.
search_positions_down_first(row, col) ==
    << <<row + 1, col>>, <<row, col + 1>>, <<row, col + 2>>, <<row, col + 3>>,
       <<row + 1, col + 1>>, <<row + 1, col + 2>>,
       <<row + 2, col>>, <<row + 2, col + 1>> >>

search_positions(row, col) ==
    << <<row, col + 1>>, <<row, col + 2>>, <<row, col + 3>>,
       <<row + 1, col>>, <<row + 1, col + 1>>, <<row + 1, col + 2>>,
       <<row + 2, col>>, <<row + 2, col + 1>> >>

\* range(1, 11): the ray search looks at most this many cells away.
RayLength == 10

\* A ray search that stops where the eight offsets stop.
RaySteps_short == 1..3

RaySteps == 1..RayLength

\* The cells of the ray search in the order the loop reads them: for each
\* distance i, the cell i to the right, then the cell i below.
RayCells(row, col) ==
    [k \in 1..(2 * Cardinality(RaySteps)) |->
        IF k % 2 = 1
        THEN [pos |-> <<row, col + (k + 1) \div 2>>, how |-> "row"]
        ELSE [pos |-> <<row + k \div 2, col>>, how |-> "column"]]

SetMin(S) == CHOOSE x \in S : \A y \in S : x <= y

\* The first loop: the first of the eight offsets that yields a number.
ProximitySearch(ws, row, col) ==
    LET pos == search_positions(row, col)
        hits == {i \in 1..Len(pos) :
                    ParseNearCell(CellValue(ws, pos[i][1], pos[i][2])).ok}
    IN  IF hits = {} THEN NotFound
        ELSE LET p == pos[SetMin(hits)]
                 got == ParseNearCell(CellValue(ws, p[1], p[2]))
             IN  Found(got.value, p[1], p[2], got.how)

\* The second loop: the first cell of the ray search that float() accepts.
RaySearch(ws, row, col) ==
    LET cells == RayCells(row, col)
        hits == {k \in DOMAIN cells :
                    ParseRayCell(CellValue(ws, cells[k].pos[1], cells[k].pos[2])).ok}
    IN  IF hits = {} THEN NotFound
        ELSE LET hit == cells[SetMin(hits)]
             IN  Found(CellValue(ws, hit.pos[1], hit.pos[2]).v,
                       hit.pos[1], hit.pos[2], hit.how)

extract_value_near_cell(ws, row, col) ==
    LET nearby == ProximitySearch(ws, row, col)
    IN  IF nearby.found THEN nearby ELSE RaySearch(ws, row, col)

(***************************************************************************)
(* The inputs of the scorer: values on both sides of, and on, every        *)
(* threshold, the two projects of the end-to-end scenarios among them.     *)
(***************************************************************************)
NpvVals == {(0 - 10) * Unit, 0, 50 * Unit, 200 * Unit}
IrrVals == {5 * Unit, 10 * Unit, 11 * Unit, 15 * Unit, 55 * (Unit \div 2)}
PaybackVals == {6 * Unit, 10 * Unit, 15 * Unit, 20 * Unit}
DebtShareVals == {30 * Unit, 50 * Unit, 70 * Unit, 80 * Unit}
DebtRateVals == {8 * Unit, 15 * Unit, 20 * Unit, 25 * Unit}
ConstructionVals == {3 * Unit, 5 * Unit, 7 * Unit, 9 * Unit}
DiscountVals == {10 * Unit, 20 * Unit, 25 * Unit, 30 * Unit}

ScoreInputs ==
    [npv : NpvVals, irr : IrrVals, payback_period : PaybackVals,
     debt_share : DebtShareVals, debt_rate : DebtRateVals,
     construction_years : ConstructionVals, discount_rate : DiscountVals]

\* The project of the second end-to-end scenario: nothing adverse.
SoundProject ==
    [npv |-> 200 * Unit, irr |-> 15 * Unit, payback_period |-> 6 * Unit,
     debt_share |-> 30 * Unit, debt_rate |-> 8 * Unit,
     construction_years |-> 3 * Unit, discount_rate |-> 10 * Unit]

\* The project of the first end-to-end scenario: everything adverse.
DistressedProject ==
    [npv |-> (0 - 10) * Unit, irr |-> 5 * Unit, payback_period |-> 20 * Unit,
     debt_share |-> 80 * Unit, debt_rate |-> 25 * Unit,
     construction_years |-> 9 * Unit, discount_rate |-> 10 * Unit]

(***************************************************************************)
(* Dictionaries: a dict is the function from its keys to their values.     *)
(***************************************************************************)
\* d.get(k, default)
Get(d, k, default) == IF k \in DOMAIN d THEN d[k] ELSE default

\* {**a, **b}
Merge(a, b) ==
    [k \in DOMAIN a \cup DOMAIN b |-> IF k \in DOMAIN b THEN b[k] ELSE a[k]]

(***************************************************************************)
(* processors/excel_reader.py: find_cell_by_text                          *)
(*                                                                         *)
(* Search texts are written in Latin letters: "tip proekta" is             *)
(* "тип проекта", "srok okupaemosti" is "срок окупаемости", "most" is      *)
(* "мост" (which "Срок окупаемости" and "Стоимость строительства" both     *)
(* contain).                                                               *)
(***************************************************************************)
\* `if cell.value`: not None, not 0, not the empty string.
Truthy(cell) ==
    \/ cell.t = "other"
    \/ cell.t = "str"
    \/ cell.t = "num" /\ cell.v # 0

\* The order of worksheet.iter_rows(): by row, and by column within a row.
RowMajorBefore(p, q) == p[1] < q[1] \/ (p[1] = q[1] /\ p[2] < q[2])

\* <<>> for None, << <<row, column>> >> for the first cell, in row-major
\* order, whose lower-cased text contains the search text.
find_cell_by_text(ws, search_text) ==
    LET hits == {p \in DOMAIN ws : Truthy(ws[p]) /\ search_text \in ws[p].pats}
    IN  IF hits = {} THEN <<>>
        ELSE <<CHOOSE p \in hits : \A q \in hits : p = q \/ RowMajorBefore(p, q)>>

(***************************************************************************)
(* processors/excel_reader.py: extract_project_data                        *)
(***************************************************************************)
\* Lines 146-151: the words a project type is recognized by.
TypeWords == <<"metro", "doroga", "energetika", "most", "tonnel'">>

\* Texts of at most two characters, and the texts line 162 passes over
\* ("ПАРАМЕТРЫ ПРОЕКТА", "ПРОЕКТ", "ТИП" in any letter case).
ShortTexts == {"-"}
ServiceTexts == {"Parametry proekta", "Proekt", "Tip"}

\* Lines 160-162: a neighbour of the "тип проекта" label that is taken as
\* the type.
IsTypeText(cell) ==
    /\ cell.t = "str"
    /\ cell.text \notin ShortTexts
    /\ cell.text \notin ServiceTexts

\* Lines 141-171: data["type"] of the first sheet.
ProjectType(ws) ==
    LET labelled == find_cell_by_text(ws, "tip proekta")
        words == {i \in 1..Len(TypeWords) : find_cell_by_text(ws, TypeWords[i]) # <<>>}
        offsets == <<1, 2, 0 - 1, 0 - 2>>
    IN  IF labelled = <<>> THEN
            IF words = {} THEN "Not specified"
            ELSE ws[find_cell_by_text(ws, TypeWords[SetMin(words)])[1]].text
        ELSE
            LET row == labelled[1][1]
                col == labelled[1][2]
                hits == {i \in 1..Len(offsets) :
                            /\ col + offsets[i] >= 1
                            /\ IsTypeText(CellValue(ws, row, col + offsets[i]))}
            IN  IF hits = {} THEN "Not specified"
                ELSE CellValue(ws, row, col + offsets[SetMin(hits)]).text

\* Lines 174-183: the synonyms of each numeric field, in the order they
\* are tried.
search_patterns ==
    [capex |-> <<"stoimost' stroitel'stva", "capex", "kapital'nye zatraty", "investicii">>,
     construction_years |-> <<"srok stroitel'stva", "period stroitel'stva", "dlitel'nost' stroitel'stva">>,
     debt_share |-> <<"dolya dolga", "procent dolga", "dolya zaemnyh sredstv">>,
     debt_rate |-> <<"stavka po dolgu", "stavka dolga", "procent po dolgu", "stavka zajma", "procent dolga">>,
     discount_rate |-> <<"stavka diskontirovaniya", "diskont", "stavka diskonta", "stavka diskontirovaniya dlya biznesa">>,
     npv |-> <<"npv", "chistaya privedennaya stoimost'", "chistaya privedyonnaya stoimost'", "chistyj privedennyj dohod", "chistaya privedyonnaya stoimost', mln. rub", "chistaya privedyonnaya stoimost', mln rub">>,
     irr |-> <<"irr", "vnutrennyaya norma dohodnosti", "vnutrennyaya norma rentabel'nosti">>,
     payback_period |-> <<"srok okupaemosti", "period okupaemosti", "okupaemost'", "payback", "okupaemost', let">>]

\* A required_fields that forgets the payback period.
required_fields_without_payback == <<"npv", "irr">>

\* Line 303.
required_fields == <<"npv", "irr", "payback_period">>

Miss == [found |-> FALSE, value |-> 0]
Hit(n) == [found |-> TRUE, value |-> n]

Abs(n) == IF n < 0 THEN 0 - n ELSE n

\* 0 <= value <= 100
InPercentRange(v) == 0 <= v /\ v <= 100 * Unit

\* Lines 196-220, the probe of E15: float(value), or the first number the
\* pattern \d+\.?\d* (no sign) finds in a string; a value below 1 is a
\* fraction and is multiplied by 100; the result counts if it is in 0..100.
ProbeE15(cell) ==
    IF cell.t = "none" THEN Miss
    ELSE IF FloatOf(cell).ok THEN
        LET value == IF 0 <= cell.v /\ cell.v < Unit THEN cell.v * 100 ELSE cell.v
        IN  IF InPercentRange(value) THEN Hit(value) ELSE Miss
    ELSE IF cell.t = "str" /\ cell.form = "embedded" THEN
        LET val == IF Abs(cell.v) < Unit THEN Abs(cell.v) * 100 ELSE Abs(cell.v)
        IN  IF InPercentRange(val) THEN Hit(val) ELSE Miss
    ELSE Miss

\* Lines 223-245, the probe of D15 and of D16: the same without the
\* multiplication.
ProbeD(cell) ==
    IF cell.t = "none" THEN Miss
    ELSE IF FloatOf(cell).ok THEN
        IF InPercentRange(cell.v) THEN Hit(cell.v) ELSE Miss
    ELSE IF cell.t = "str" /\ cell.form = "embedded" THEN
        IF InPercentRange(Abs(cell.v)) THEN Hit(Abs(cell.v)) ELSE Miss
    ELSE Miss

\* Lines 192-247: E15, then D15, then D16.
IrrProbe(ws) ==
    IF ProbeE15(CellValue(ws, 15, 5)).found THEN ProbeE15(CellValue(ws, 15, 5))
    ELSE IF ProbeD(CellValue(ws, 15, 4)).found THEN ProbeD(CellValue(ws, 15, 4))
    ELSE ProbeD(CellValue(ws, 16, 4))

\* Lines 253-284, one synonym: the cell it is found in, if that cell holds
\* a number or a string with a number; else the value near that cell.
TryPattern(ws, pattern) ==
    LET cell_pos == find_cell_by_text(ws, pattern)
    IN  IF cell_pos = <<>> THEN Miss
        ELSE LET row == cell_pos[1][1]
                 col == cell_pos[1][2]
                 cell == CellValue(ws, row, col)
             IN  IF cell.t = "num" THEN Hit(cell.v)
                 ELSE IF cell.t = "str" /\ cell.form \in {"numeric", "embedded"}
                      THEN Hit(cell.v)
                 ELSE LET value == extract_value_near_cell(ws, row, col)
                      IN  IF value.found THEN Hit(value.value) ELSE Miss

\* A search that lets a later synonym overrule an earlier one.
SynonymSearch_last(ws, patterns) ==
    LET hits == {i \in 1..Len(patterns) : TryPattern(ws, patterns[i]).found}
    IN  IF hits = {} THEN Miss
        ELSE TryPattern(ws, patterns[CHOOSE i \in hits : \A j \in hits : j <= i])

\* Lines 252-284: the first synonym that yields a value.
SynonymSearch(ws, patterns) ==
    LET hits == {i \in 1..Len(patterns) : TryPattern(ws, patterns[i]).found}
    IN  IF hits = {} THEN Miss ELSE TryPattern(ws, patterns[SetMin(hits)])

\* A scan that searches every sheet for every field.
ScanKey_unconditional(ws, first, key, data) ==
    LET probe == IF key = "irr" /\ first THEN IrrProbe(ws) ELSE Miss
        got == IF probe.found THEN probe
               ELSE SynonymSearch(ws, search_patterns[key])
    IN  IF got.found THEN got.value
        ELSE IF key \in DOMAIN data THEN data[key]
        ELSE 0

\* Lines 186-287, one field on one sheet: data[key] afterwards.
ScanKey(ws, first, key, data) ==
    IF key \in DOMAIN data /\ data[key] # 0 THEN data[key]
    ELSE LET probe == IF key = "irr" /\ first THEN IrrProbe(ws) ELSE Miss
             got == IF probe.found THEN probe
                    ELSE SynonymSearch(ws, search_patterns[key])
         IN  IF got.found THEN got.value
             ELSE IF key \in DOMAIN data THEN data[key]
             ELSE 0

\* Lines 136-287, one sheet: the type if it is the first sheet, then every
\* numeric field that is not resolved yet.
ScanSheet(ws, first, data) ==
    LET typed == IF first THEN Merge(data, [type |-> ProjectType(ws)]) ELSE data
    IN  [key \in DOMAIN typed \cup DOMAIN search_patterns |->
            IF key \in DOMAIN search_patterns
            THEN ScanKey(ws, first, key, typed)
            ELSE typed[key]]

\* data after the first n sheets of the workbook.
RECURSIVE DataAfter(_, _)
DataAfter(sheets, n) ==
    IF n = 0 THEN <<>>
    ELSE ScanSheet(sheets[n], n = 1, DataAfter(sheets, n - 1))

\* Line 304.
MissingFields(data) ==
    SelectSeq(required_fields, LAMBDA field : field \notin DOMAIN data \/ data[field] = 0)

\* A workbook is [readable, sheets]; load_workbook raises for one that is
\* not readable.  The result: the data returned, or the ValueError raised
\* (with the fields it names), and the data the scan had reached.
extract_project_data(workbook_file) ==
    IF ~workbook_file.readable
    THEN [raised |-> "ValueError", missing |-> <<>>, value |-> <<>>, scanned |-> <<>>]
    ELSE LET sheets == workbook_file.sheets
             data == DataAfter(sheets, Len(sheets))
             missing_fields == MissingFields(data)
         IN  IF missing_fields # <<>>
             THEN [raised |-> "ValueError", missing |-> missing_fields,
                   value |-> <<>>, scanned |-> data]
             ELSE [raised |-> "none", missing |-> <<>>,
                   value |-> data, scanned |-> data]

(***************************************************************************)
(* processors/risk_calculator.py: calculate_risk_fallback                  *)
(***************************************************************************)
\* The fixed justification of each level.
ReasonOf(level) ==
    CASE level = "Low" -> "good indicators, low risk"
      [] level = "Medium" -> "acceptable risk, monitor the key parameters"
      [] level = "High" -> "high risk, mitigation needed"
      [] OTHER -> "critical risk, revise or abandon"

\* Checks that also hold on the thresholds.
CriticalFactors_inclusive(project_data) ==
    (IF Get(project_data, "npv", 0) <= 0 THEN <<"negative NPV">> ELSE <<>>)
    \o (IF Get(project_data, "irr", 0) <= Get(project_data, "discount_rate", 0)
        THEN <<"IRR below the discount rate">> ELSE <<>>)
    \o (IF Get(project_data, "debt_share", 0) >= 50 * Unit
        THEN <<"high debt share">> ELSE <<>>)
    \o (IF Get(project_data, "payback_period", 0) >= 10 * Unit
        THEN <<"long payback">> ELSE <<>>)

\* critical_factors: one entry per check that holds, in the order of the
\* four checks.
CriticalFactors(project_data) ==
    (IF Get(project_data, "npv", 0) < 0 THEN <<"negative NPV">> ELSE <<>>)
    \o (IF Get(project_data, "irr", 0) < Get(project_data, "discount_rate", 0)
        THEN <<"IRR below the discount rate">> ELSE <<>>)
    \o (IF Get(project_data, "debt_share", 0) > 50 * Unit
        THEN <<"high debt share">> ELSE <<>>)
    \o (IF Get(project_data, "payback_period", 0) > 10 * Unit
        THEN <<"long payback">> ELSE <<>>)

calculate_risk_fallback(project_data) ==
    LET score == calculate_risk_score(
                     Get(project_data, "npv", 0), Get(project_data, "irr", 0),
                     Get(project_data, "payback_period", 0),
                     Get(project_data, "debt_share", 0),
                     Get(project_data, "debt_rate", 0),
                     Get(project_data, "construction_years", 0),
                     Get(project_data, "discount_rate", 0))
        level == score_to_risk_level(score)
        factors == CriticalFactors(project_data)
    IN  [risk_level |-> level,
         reason |-> ReasonOf(level),
         critical_factors |->
             IF factors # <<>> THEN factors ELSE <<"detailed analysis required">>,
         scenarios |-> <<>>,
         total_potential_losses |-> <<0>>,
         risk_mitigation |-> <<>>]

(***************************************************************************)
(* processors/ai_client.py: the request seed                               *)
(*                                                                         *)
(* A float is [neg, milli]: its sign bit and its magnitude in 1 / Unit.    *)
(* -0.0 and 0.0 are two floats that compare equal; json.dumps writes them  *)
(* "-0.0" and "0.0".                                                       *)
(***************************************************************************)
\* float(n)
ToFloat(n) == [neg |-> n < 0, milli |-> IF n < 0 THEN 0 - n ELSE n]

\* round(x, 2): to the nearest 1/100, the sign kept (round(-0.004, 2) is
\* -0.0).  A value halfway between two hundredths goes to the even one,
\* which is what round() does where the double is the halfway value itself
\* (0.125, 0.375); the calls of the model pass no halfway value.
Round2(x) ==
    LET step == Unit \div (10 ^ Decimals)
        q == x.milli \div step
        r == x.milli % step
        up == r * 2 > step \/ (r * 2 = step /\ q % 2 = 1)
    IN  [neg |-> x.neg, milli |-> step * (IF up THEN q + 1 ELSE q)]

\* The dict analyze_risks serializes: normalized_params, normalized_results
\* and the type.  json.dumps(..., sort_keys=True) writes one string per such
\* dict and different strings for different dicts, so the dict stands for
\* data_string.
DataString(project_params, model_results) ==
    [capex |-> Round2(ToFloat(Get(project_params, "capex", 0))),
     construction_years |-> Round2(ToFloat(Get(project_params, "construction_years", 0))),
     debt_share |-> Round2(ToFloat(Get(project_params, "debt_share", 0))),
     debt_rate |-> Round2(ToFloat(Get(project_params, "debt_rate", 0))),
     discount_rate |-> Round2(ToFloat(Get(project_params, "discount_rate", 0))),
     npv |-> Round2(ToFloat(Get(model_results, "npv", 0))),
     irr |-> Round2(ToFloat(Get(model_results, "irr", 0))),
     payback_period |-> Round2(ToFloat(Get(model_results, "payback_period", 0))),
     type |-> Get(project_params, "type", "Not specified")]

\* The data_string of a project of the scorer with the capex float c and
\* the type t.
DataStringFor(p, c, t) ==
    [capex |-> c,
     construction_years |-> ToFloat(p.construction_years),
     debt_share |-> ToFloat(p.debt_share),
     debt_rate |-> ToFloat(p.debt_rate),
     discount_rate |-> ToFloat(p.discount_rate),
     npv |-> ToFloat(p.npv),
     irr |-> ToFloat(p.irr),
     payback_period |-> ToFloat(p.payback_period),
     type |-> t]

\* hashlib.md5(data_string.encode()).hexdigest()[:8] as <<high 16 bits, low
\* 16 bits>>: the MD5 digests of the strings json.dumps writes for the
\* projects of the model ("Metro" is "Метро", "Not specified" is
\* "Не указан").
Md5Prefix(ds) ==
    CASE ds = DataStringFor(SoundProject, [neg |-> TRUE, milli |-> 0], "Metro") -> <<65152, 31763>>  \* fe807c13
      [] ds = DataStringFor(SoundProject, [neg |-> TRUE, milli |-> 0], "Not specified") -> <<36015, 51447>>  \* 8cafc8f7
      [] ds = DataStringFor(SoundProject, [neg |-> FALSE, milli |-> 0], "Metro") -> <<60445, 55202>>  \* ec1dd7a2
      [] ds = DataStringFor(SoundProject, [neg |-> FALSE, milli |-> 0], "Not specified") -> <<9794, 22619>>  \* 2642585b
      [] ds = DataStringFor(SoundProject, [neg |-> FALSE, milli |-> 1500000], "Metro") -> <<46118, 3358>>  \* b4260d1e
      [] ds = DataStringFor(SoundProject, [neg |-> FALSE, milli |-> 1500000], "Not specified") -> <<47375, 1069>>  \* b90f042d
      [] ds = DataStringFor(DistressedProject, [neg |-> TRUE, milli |-> 0], "Metro") -> <<12865, 3728>>  \* 32410e90
      [] ds = DataStringFor(DistressedProject, [neg |-> TRUE, milli |-> 0], "Not specified") -> <<21396, 61397>>  \* 5394efd5
      [] ds = DataStringFor(DistressedProject, [neg |-> FALSE, milli |-> 0], "Metro") -> <<64307, 6742>>  \* fb331a56
      [] ds = DataStringFor(DistressedProject, [neg |-> FALSE, milli |-> 0], "Not specified") -> <<43666, 27532>>  \* aa926b8c
      [] ds = DataStringFor(DistressedProject, [neg |-> FALSE, milli |-> 1500000], "Metro") -> <<39429, 62222>>  \* 9a05f30e
      [] ds = DataStringFor(DistressedProject, [neg |-> FALSE, milli |-> 1500000], "Not specified") -> <<42240, 39180>>  \* a500990c

\* 2147483647, the modulus of the seed.
SeedModulus == 2147483647

\* int(prefix, 16) % 2147483647.  The prefix is b * 2^31 + r with b its top
\* bit, and 2^31 is 1 modulo 2^31 - 1, so the seed is (b + r) % 2147483647.
SeedOf(prefix) ==
    LET b == prefix[1] \div 32768
        r == (prefix[1] % 32768) * 65536 + prefix[2]
    IN  IF b = 0 THEN (IF r = SeedModulus THEN 0 ELSE r)
        ELSE IF r = SeedModulus THEN 1
        ELSE IF r = SeedModulus - 1 THEN 0 ELSE r + 1

\* request_body["seed"]
RequestSeed(project_params, model_results) ==
    SeedOf(Md5Prefix(DataString(project_params, model_results)))

(***************************************************************************)
(* processors/ai_client.py: the reply                                      *)
(*                                                                         *)
(* A reply is what requests.post does:                                     *)
(*   transport  "ok", "timeout" (Timeout) or "error" (another              *)
(*              RequestException);                                         *)
(*   status     the status code;                                           *)
(*   body       what response.json() makes of the body: "not_json"         *)
(*              (it raises), "array" (a JSON value that is no object) or   *)
(*              "object";                                                  *)
(*   choices    of an object: "absent", "empty", "no_message" (the first   *)
(*              choice lacks message.content) or "content";                *)
(*   content    what json.loads makes of the content: "not_json",          *)
(*              "array" or "object";                                       *)
(*   fields     the keys and values of the object that would be the        *)
(*              result: the decoded content, or the body itself.           *)
(***************************************************************************)
Reply(transport, status, body, choices, content, fields) ==
    [transport |-> transport, status |-> status, body |-> body,
     choices |-> choices, content |-> content, fields |-> fields]

NoFields == <<>>

Returned(value, source) == [raised |-> "none", value |-> value, source |-> source]
Raised(exc) == [raised |-> exc, value |-> NoFields, source |-> "none"]

\* A backfill that overwrites the keys of the reply with the defaults.
Backfill_overwriting(result) ==
    Merge(result,
          [scenarios |-> <<>>, total_potential_losses |-> <<0>>,
           risk_mitigation |-> <<>>, business_vision |-> "",
           estimated_payback |-> <<>>, business_score |-> <<>>])

\* Lines 209-220: every expected key the reply lacks gets its default
\* (None is <<>>, a number n is <<n>>).
Backfill(result) ==
    Merge([scenarios |-> <<>>, total_potential_losses |-> <<0>>,
           risk_mitigation |-> <<>>, business_vision |-> "",
           estimated_payback |-> <<>>, business_score |-> <<>>],
          result)

\* Lines 185-254, the body of the try block once requests.post returned:
\* the result, or the exception raised.
HandleResponse(response) ==
    IF response.status = 200 THEN
        IF response.body = "not_json" THEN Raised("ValueError")
        ELSE IF response.body = "object" /\ response.choices \in {"no_message", "content"} THEN
            IF response.choices = "no_message" THEN Raised("KeyError")
            ELSE IF response.content = "not_json" THEN Raised("ValueError")
            ELSE IF response.content # "object" THEN Raised("AttributeError")
            ELSE IF "risk_level" \notin DOMAIN response.fields THEN Raised("ValueError")
            ELSE Returned(Backfill(response.fields), "remote")
        ELSE IF response.body = "object" /\ "risk_level" \in DOMAIN response.fields
            THEN Returned(Backfill(response.fields), "remote")
        ELSE Raised("ValueError")
    ELSE Raised("RequestException")

\* analyze_risks: the try block and its three handlers, each of which
\* raises RequestException.
analyze_risks(project_params, model_results, response) ==
    LET attempt == IF response.transport = "timeout" THEN Raised("Timeout")
                   ELSE IF response.transport = "error" THEN Raised("RequestException")
                   ELSE HandleResponse(response)
    IN  IF attempt.raised = "none" THEN attempt ELSE Raised("RequestException")

\* A fallback that scores the project params alone.
analyze_risks_with_fallback_params_only(project_params, model_results, response) ==
    LET remote == analyze_risks(project_params, model_results, response)
    IN  IF remote.raised = "none" THEN remote
        ELSE Returned(calculate_risk_fallback(project_params), "fallback")

analyze_risks_with_fallback(project_params, model_results, response) ==
    LET remote == analyze_risks(project_params, model_results, response)
    IN  IF remote.raised = "none" THEN remote
        ELSE Returned(calculate_risk_fallback(Merge(project_params, model_results)),
                      "fallback")

\* How far beyond 0..100 the arguments of score_to_risk_level are drawn.
ScoreMargin == 5
ScoreArgs == (0 - ScoreMargin)..(100 + ScoreMargin)

(***************************************************************************)
(* The worksheets extract_value_near_cell is run on: a label at LabelAt    *)
(* and at most MaxCells non-empty cells among those the function reads.    *)
(* The number a cell holds tells where it stands (100 * rows below the     *)
(* label + columns right of it), so the value returned names the cell.     *)
(***************************************************************************)
MaxCells == 2
LabelAt == <<1, 1>>

NearCells ==
    {<<LabelAt[1], LabelAt[2] + i>> : i \in 1..RayLength}
    \cup {<<LabelAt[1] + i, LabelAt[2]>> : i \in 1..RayLength}
    \cup {<<LabelAt[1] + 1, LabelAt[2] + 1>>, <<LabelAt[1] + 1, LabelAt[2] + 2>>,
          <<LabelAt[1] + 2, LabelAt[2] + 1>>}

NumberAt(pos) == 100 * (pos[1] - LabelAt[1]) + (pos[2] - LabelAt[2])

NearContents(pos) ==
    {NumCell(NumberAt(pos)), NumericStr(NumberAt(pos)),
     EmbeddedStr(NumberAt(pos), {}), PlainStr({}), OtherCell}

IdleScore ==
    /\ inp = SoundProject
    /\ risk_score = Unset
    /\ risk_level = "unset"

IdleNear ==
    /\ sheet = <<>>
    /\ near = NotFound

(***************************************************************************)
(* The calls of the remote analyzer: the two projects of the scorer, with  *)
(* a capex that is absent, zero, just below or above zero, or just below   *)
(* or above 1500, and with or without a type; and every kind of reply.     *)
(***************************************************************************)
\* <<>> is a key the dict lacks.
CapexOptions == {<<>>, <<0>>, <<0 - 4>>, <<4>>, <<1500 * Unit + 4>>, <<1500 * Unit - 4>>}
TypeOptions == {<<>>, <<"Metro">>, <<"Not specified">>}

\* The project_params of a call: the project's parameters, with or without
\* the keys capex and type (analyze_risks reads every key with .get()).
ProjectParams(p, capex, type) ==
    Merge(Merge([construction_years |-> p.construction_years,
                 debt_share |-> p.debt_share, debt_rate |-> p.debt_rate,
                 discount_rate |-> p.discount_rate],
                IF capex = <<>> THEN <<>> ELSE [capex |-> capex[1]]),
          IF type = <<>> THEN <<>> ELSE [type |-> type[1]])

\* The model_results of a call.
ModelResults(p) ==
    [npv |-> p.npv, irr |-> p.irr, payback_period |-> p.payback_period]

RemoteInputs ==
    {<<SoundProject, c, <<"Metro">> >> : c \in CapexOptions}
    \cup {<<DistressedProject, c, <<"Metro">> >> : c \in {<<0>>, <<1500 * Unit + 4>>}}
    \cup {<<SoundProject, <<0>>, t>> : t \in TypeOptions}

\* A reply with every key, a reply with the two keys the backfill does not
\* cover, a reply with some of the keys (one of them null), a reply
\* without risk_level, and a reply whose risk_level is not
\* one of the four levels ("Moderate" for a word such as "Умеренный").
FullReply ==
    [risk_level |-> "High", reason |-> "r", critical_factors |-> <<"f">>,
     scenarios |-> <<"s">>, total_potential_losses |-> <<120>>,
     risk_mitigation |-> <<"m">>, business_vision |-> "v",
     estimated_payback |-> <<7>>, business_score |-> <<64>>]
MinimalReply == [risk_level |-> "Low", reason |-> "r"]
PartialReply ==
    [risk_level |-> "Medium", scenarios |-> <<"s">>, estimated_payback |-> <<>>,
     business_score |-> <<64>>]
NoLevelReply == [reason |-> "r", critical_factors |-> <<"f">>]
OddLevelReply == [risk_level |-> "Moderate", reason |-> "r"]

Replies ==
    {Reply("timeout", 0, "none", "absent", "none", NoFields),
     Reply("error", 0, "none", "absent", "none", NoFields),
     Reply("ok", 400, "object", "absent", "none", NoFields),
     Reply("ok", 500, "not_json", "absent", "none", NoFields),
     Reply("ok", 404, "object", "absent", "none", MinimalReply),
     Reply("ok", 200, "not_json", "absent", "none", NoFields),
     Reply("ok", 200, "array", "absent", "none", NoFields),
     Reply("ok", 200, "object", "absent", "none", NoLevelReply),
     Reply("ok", 200, "object", "no_message", "none", NoFields),
     Reply("ok", 200, "object", "content", "not_json", NoFields),
     Reply("ok", 200, "object", "content", "array", NoFields),
     Reply("ok", 200, "object", "content", "object", NoLevelReply),
     Reply("ok", 200, "object", "content", "object", FullReply),
     Reply("ok", 200, "object", "content", "object", OddLevelReply),
     Reply("ok", 200, "object", "absent", "none", MinimalReply),
     Reply("ok", 200, "object", "content", "object", PartialReply),
     Reply("ok", 200, "object", "empty", "none", FullReply)}

NoRequest ==
    [made |-> FALSE, project_params |-> <<>>, model_results |-> <<>>, seed |-> 0]
NoReply == Reply("none", 0, "none", "absent", "none", NoFields)
NoAnalysis == Raised("not called")

IdleRemote ==
    /\ request = NoRequest
    /\ prev_request = NoRequest
    /\ reply = NoReply
    /\ analysis = NoAnalysis

(***************************************************************************)
(* The workbooks extract_project_data is run on: one to MaxSheets sheets,  *)
(* each one of the layouts below, and a file that does not load.           *)
(***************************************************************************)
MaxSheets == 2

Title == Label("Finansovaya model'", {})
TypeLabel == Label("Tip proekta", {"tip proekta"})
MetroText == Label("Metro", {"metro"})
NpvLabel == Label("NPV", {"npv"})
IrrLabel == Label("IRR", {"irr"})
IrrLabel15 == LabelWithNumber("IRR 15%", 15 * Unit, {"irr"})
PaybackLabel == Label("Srok okupaemosti", {"most", "srok okupaemosti"})
CapexLabel == Label("Stoimost' stroitel'stva", {"most", "stoimost' stroitel'stva"})
DebtShareLabel == Label("Dolya dolga", {"dolya dolga"})
PeriodLabel == Label("Period okupaemosti", {"most", "period okupaemosti"})
PaybackWord == Label("Payback", {"payback"})

\* A label in column col of row r and a cell to its right.
LabelledRow(r, col, label, value) == (<<r, col>> :> label) @@ (<<r, col + 1>> :> value)

\* A title and the three required fields as a list in columns A and B.
ListSheet(npv, irr, payback) ==
    (<<1, 1>> :> Title) @@ LabelledRow(2, 1, NpvLabel, npv)
    @@ LabelledRow(3, 1, IrrLabel, irr) @@ LabelledRow(4, 1, PaybackLabel, payback)

\* The template the probe of E15 is written for: the type in D2:E2, the
\* results in D13:E15 with the IRR in E15.
TemplateSheet(e15) ==
    LabelledRow(2, 4, TypeLabel, MetroText) @@ LabelledRow(13, 4, NpvLabel, NumCell(200 * Unit))
    @@ LabelledRow(14, 4, PaybackLabel, NumCell(6 * Unit)) @@ LabelledRow(15, 4, IrrLabel, e15)

\* Two optional fields.
OptionalRows ==
    LabelledRow(5, 1, CapexLabel, NumCell(1500 * Unit))
    @@ LabelledRow(6, 1, DebtShareLabel, NumCell(30 * Unit))

SheetLayouts ==
    {<<1, 1>> :> Title,
     ListSheet(NumCell(200 * Unit), NumCell(15 * Unit), NumCell(6 * Unit)),
     ListSheet(NumCell(50 * Unit), NumCell(11 * Unit), NumCell(10 * Unit)),
     ListSheet(NumCell(0), NumCell(15 * Unit), NumCell(6 * Unit)),
     ListSheet(NumCell(200 * Unit), NumCell(15 * Unit), EmptyCell),
     ListSheet(NumCell(200 * Unit), NumCell(15 * Unit), NumCell(6 * Unit))
         @@ (<<15, 5>> :> NumCell(0)),
     ListSheet(NumCell(200 * Unit), NumCell(15 * Unit), NumCell(6 * Unit)) @@ OptionalRows,
     (<<1, 1>> :> Title) @@ LabelledRow(2, 1, NpvLabel, NumCell(200 * Unit))
         @@ (<<3, 1>> :> IrrLabel15) @@ LabelledRow(4, 1, PaybackLabel, NumCell(6 * Unit)),
     (<<1, 1>> :> Title) @@ OptionalRows,
     (<<1, 1>> :> Title) @@ LabelledRow(2, 1, NpvLabel, NumCell(200 * Unit))
         @@ LabelledRow(4, 1, PaybackLabel, NumCell(6 * Unit))
         @@ LabelledRow(15, 3, IrrLabel, NumCell(300)),
     (<<1, 1>> :> Title) @@ LabelledRow(2, 1, NpvLabel, NumCell(200 * Unit))
         @@ LabelledRow(3, 1, IrrLabel, NumCell(15 * Unit))
         @@ LabelledRow(4, 1, PaybackWord, NumCell(7 * Unit))
         @@ (<<20, 20>> :> PaybackLabel),
     (<<1, 1>> :> Title) @@ LabelledRow(2, 1, NpvLabel, NumCell(200 * Unit))
         @@ LabelledRow(3, 1, IrrLabel, NumCell(15 * Unit))
         @@ LabelledRow(4, 1, PeriodLabel, NumCell(8 * Unit))
         @@ LabelledRow(5, 1, PaybackLabel, NumCell(6 * Unit)),
     TemplateSheet(NumCell(150)),
     TemplateSheet(NumCell(0)),
     TemplateSheet(NumCell(150 * Unit))}

RECURSIVE SheetSequences(_)
SheetSequences(n) ==
    IF n = 0 THEN {<<>>}
    ELSE {Append(w, ws) : w \in SheetSequences(n - 1), ws \in SheetLayouts}

Workbooks ==
    {[readable |-> TRUE, sheets |-> w] :
        w \in UNION {SheetSequences(n) : n \in 1..MaxSheets}}
    \cup {[readable |-> FALSE, sheets |-> <<>>]}

NoWorkbook == [readable |-> FALSE, sheets |-> <<>>]
NoExtraction == [raised |-> "not called", missing |-> <<>>, value |-> <<>>, scanned |-> <<>>]

IdleExtract ==
    /\ workbook = NoWorkbook
    /\ extraction = NoExtraction

(***************************************************************************)
(* processors/report_generator.py: create_risk_analysis_sheet              *)
(*                                                                         *)
(* A path is the sequence of the pieces of its stem (every path of the     *)
(* model ends in .xlsx): <<"model">> is model.xlsx and                     *)
(* <<"model", "_analiz">> is model_анализ.xlsx.  The file system is the    *)
(* function from the paths that exist to their files.  A file is           *)
(* [kind, sheets]: kind "workbook" (load_workbook opens it), "corrupt" (it *)
(* raises), "empty" (zero bytes); sheets is the sequence of the sheets,    *)
(* each [title, body].  "Analiz_riskov" is the title "Анализ_рисков".      *)
(* In a RiskAnalysis, None is <<>> and the number n of an optional numeric *)
(* field is <<n>>.                                                         *)
(***************************************************************************)
\* Lines 38-39: original_file_path.stem + "_анализ.xlsx", same directory.
OutputPath(original_file_path) == Append(original_file_path, "_analiz")

ReportTitle == "Analiz_riskov"

WorkbookFile(sheets) == [kind |-> "workbook", sheets |-> sheets]
CorruptFile == [kind |-> "corrupt", sheets |-> <<>>]
EmptyFile == [kind |-> "empty", sheets |-> <<>>]

\* A sheet the user's workbook came with.
OriginalSheet(title) == [title |-> title, body |-> [original |-> title]]

\* workbook.sheetnames
SheetNames(sheets) == {sheets[i].title : i \in 1..Len(sheets)}

\* Line 53: workbook.remove(workbook["Анализ_рисков"]).
RemoveSheet(sheets, title) == SelectSeq(sheets, LAMBDA sh : sh.title # title)

\* Lines 98-108: the nine indicator values, each read with .get().
Indicators(project_params, model_results) ==
    <<Get(project_params, "type", "Not specified"),
      Get(project_params, "capex", 0),
      Get(project_params, "construction_years", 0),
      Get(project_params, "debt_share", 0),
      Get(project_params, "debt_rate", 0),
      Get(project_params, "discount_rate", 0),
      Get(model_results, "npv", 0),
      Get(model_results, "irr", 0),
      Get(model_results, "payback_period", 0)>>

\* A JSON value read where a number is expected: None is <<>>, a number n
\* is <<n>> and a string s is <<"text", s>>.  Only a number can be compared
\* with 0 (lines 212, 218, 226 and 236); the others raise TypeError.
Text(s) == <<"text", s>>
IsNumber(value) == Len(value) = 1

\* Lines 204-231, one scenario: a scenario that is no object has no .get,
\* and an impact that is None or a string cannot be compared with 0.  An
\* absent key is read as its default.
ScenarioRaises(scenario) ==
    \/ scenario.kind # "object"
    \/ ~IsNumber(Get(scenario, "npv_impact", <<0>>))
    \/ ~IsNumber(Get(scenario, "irr_impact", <<0>>))
    \/ ~IsNumber(Get(scenario, "potential_losses", <<0>>))

ScenarioRow(scenario) ==
    [name |-> Get(scenario, "name", "Not specified"),
     description |-> Get(scenario, "description", ""),
     npv_impact |-> Get(scenario, "npv_impact", <<0>>)[1],
     irr_impact |-> Get(scenario, "irr_impact", <<0>>)[1],
     probability |-> Get(scenario, "probability", "Not specified"),
     potential_losses |-> Get(scenario, "potential_losses", <<0>>)[1]]

\* A rendering that writes the line with 0 years when the value is absent.
EstimatedPaybackLine_always(risk_analysis) ==
    Get(risk_analysis, "estimated_payback", <<0>>)

\* Lines 308-314: the estimated-payback line, written when the value is
\* not None; <<>> is no line.
EstimatedPaybackLine(risk_analysis) ==
    Get(risk_analysis, "estimated_payback", <<>>)

\* Lines 127-314: the body of the new sheet, or the exception raised.
\* A section that is omitted is <<>>.  The vision is written as one bullet
\* (the texts of the model are one sentence).
RenderSheet(project_params, model_results, risk_analysis) ==
    LET risk_level_shown == Get(risk_analysis, "risk_level", "Not determined")
        critical_factors == Get(risk_analysis, "critical_factors", <<>>)
        scenarios == Get(risk_analysis, "scenarios", <<>>)
        total_losses == Get(risk_analysis, "total_potential_losses", <<0>>)
        risk_mitigation == Get(risk_analysis, "risk_mitigation", <<>>)
        business_vision == Get(risk_analysis, "business_vision", "")
    IN  IF \/ \E i \in 1..Len(scenarios) : ScenarioRaises(scenarios[i])
           \/ ~IsNumber(total_losses)
        THEN [raised |-> "Exception", body |-> <<>>]
        ELSE [raised |-> "none",
              body |->
                [indicators |-> Indicators(project_params, model_results),
                 risk_level |-> risk_level_shown,
                 coloured |-> risk_level_shown \in RiskLevels,
                 reason |-> Get(risk_analysis, "reason", "Not provided"),
                 critical_factors |->
                     IF critical_factors # <<>> THEN critical_factors
                     ELSE <<"None identified">>,
                 scenarios |-> [i \in 1..Len(scenarios) |-> ScenarioRow(scenarios[i])],
                 total_losses |-> IF total_losses[1] > 0 THEN total_losses ELSE <<>>,
                 risk_mitigation |-> risk_mitigation,
                 business_vision |->
                     IF business_vision # "" THEN <<business_vision>> ELSE <<>>,
                 estimated_payback |-> EstimatedPaybackLine(risk_analysis)]]

\* What becomes of the output path when workbook.save and the checks after
\* it run; save_outcome is what the save does:
\*   "saved"      the workbook is written;
\*   "raises"     save raises and leaves a partial file (lines 332-341);
\*   "vanished"   no file is there after the save (lines 345-347);
\*   "empty"      the file written has zero bytes (lines 349-352);
\*   "unreadable" the file written does not load again (lines 357-367).
SaveOutcomes == {"saved", "raises", "vanished", "empty", "unreadable"}

ReportResult(raised, value, fs, rendered) ==
    [raised |-> raised, value |-> value, files |-> fs, rendered |-> rendered]

NotRendered == [raised |-> "not run", body |-> <<>>]

\* The file system without the path.
Unlink(fs, path) == [q \in DOMAIN fs \ {path} |-> fs[q]]

\* The file system with the file at the path.
WriteFile(fs, path, file) ==
    [q \in DOMAIN fs \cup {path} |-> IF q = path THEN file ELSE fs[q]]

\* A writer that adds the sheet to the original file itself.
create_risk_analysis_sheet_in_place(fs, original_file_path, project_params, model_results, risk_analysis, save_outcome) ==
    LET rendered == RenderSheet(project_params, model_results, risk_analysis)
    IN  IF original_file_path \notin DOMAIN fs \/ fs[original_file_path].kind # "workbook"
           \/ rendered.raised # "none" \/ save_outcome # "saved"
        THEN ReportResult("ValueError", <<>>, fs, rendered)
        ELSE ReportResult("none", original_file_path,
                 WriteFile(fs, original_file_path,
                     WorkbookFile(Append(RemoveSheet(fs[original_file_path].sheets, ReportTitle),
                                         [title |-> ReportTitle, body |-> rendered.body]))),
                 rendered)

\* Lines 36-375.  Every exception leaves through the handler of line 373,
\* which raises ValueError.
create_risk_analysis_sheet(fs, original_file_path, project_params, model_results, risk_analysis, save_outcome) ==
    LET output_path == OutputPath(original_file_path)
    IN  IF original_file_path \notin DOMAIN fs
        THEN \* shutil.copy2 raises: nothing was created
             ReportResult("ValueError", <<>>, fs, NotRendered)
        ELSE
        LET copied == WriteFile(fs, output_path, fs[original_file_path])
        IN  IF copied[output_path].kind # "workbook"
            THEN \* load_workbook raises: the copy stays
                 ReportResult("ValueError", <<>>, copied, NotRendered)
            ELSE
            LET kept == IF ReportTitle \in SheetNames(copied[output_path].sheets)
                        THEN RemoveSheet(copied[output_path].sheets, ReportTitle)
                        ELSE copied[output_path].sheets
                rendered == RenderSheet(project_params, model_results, risk_analysis)
                sheets == Append(kept, [title |-> ReportTitle, body |-> rendered.body])
            IN  IF rendered.raised # "none"
                THEN \* the copy stays
                     ReportResult("ValueError", <<>>, copied, rendered)
                ELSE IF save_outcome \in {"raises", "vanished", "empty", "unreadable"}
                THEN \* the file, if there is one, is unlinked
                     ReportResult("ValueError", <<>>, Unlink(copied, output_path), rendered)
                ELSE ReportResult("none", output_path,
                                  WriteFile(copied, output_path, WorkbookFile(sheets)),
                                  rendered)

(***************************************************************************)
(* The calls of create_risk_analysis_sheet: the file model.xlsx that is    *)
(* missing, corrupt, or a workbook with or without a sheet "Анализ_рисков" *)
(* of its own; an output file left by an earlier run or none; another      *)
(* file of the directory; every outcome of the save; and the analyses      *)
(* below.                                                                  *)
(***************************************************************************)
OriginalPath == <<"model">>
OtherPath == <<"other">>

OldReportSheet == [title |-> ReportTitle, body |-> [original |-> "old report"]]

OriginalFiles ==
    {CorruptFile,
     WorkbookFile(<<OriginalSheet("Model")>>),
     WorkbookFile(<<OriginalSheet("Model"), OriginalSheet("Data")>>),
     WorkbookFile(<<OriginalSheet("Model"), OldReportSheet>>),
     WorkbookFile(<<OldReportSheet, OriginalSheet("Model"), OriginalSheet("Data")>>),
     WorkbookFile(<<OldReportSheet>>)}

StaleOutput == WorkbookFile(<<OriginalSheet("Earlier"), OldReportSheet>>)

\* The file systems a call starts from.
ReportFileSystems ==
    LET base == OtherPath :> WorkbookFile(<<OriginalSheet("Other")>>)
        withOriginal == {base} \cup {WriteFile(base, OriginalPath, f) : f \in OriginalFiles}
    IN  withOriginal \cup {WriteFile(fs, OutputPath(OriginalPath), StaleOutput) : fs \in withOriginal}

GoodScenario ==
    [kind |-> "object", name |-> "delay", description |-> "d",
     npv_impact |-> <<0 - 40>>, irr_impact |-> <<0 - 2>>,
     probability |-> "medium", potential_losses |-> <<40>>]
BareScenario == [kind |-> "object", name |-> "bare"]
TextScenario == [kind |-> "text"]
NullImpactScenario == [kind |-> "object", name |-> "null impact", npv_impact |-> <<>>]
TextLossesScenario ==
    [kind |-> "object", name |-> "text losses", potential_losses |-> Text("n/a")]

\* A RiskAnalysis with every key; one with risk_level alone; the two
\* fallback results; and two whose scenarios cannot be written.
CompleteAnalysis ==
    [risk_level |-> "High", reason |-> "r", critical_factors |-> <<"f">>,
     scenarios |-> <<GoodScenario, BareScenario>>, total_potential_losses |-> <<120>>,
     risk_mitigation |-> <<"m">>, business_vision |-> "v",
     estimated_payback |-> <<7>>, business_score |-> <<64>>]

\* Replies of the remote service that pass lines 204-206: one with every
\* key, one with risk_level alone, and four in which a number is null or
\* a string.
RenderedReplies ==
    {CompleteAnalysis,
     [risk_level |-> "Low"],
     [risk_level |-> "Medium", total_potential_losses |-> <<>>],
     [risk_level |-> "Medium", total_potential_losses |-> Text("n/a")],
     [risk_level |-> "Medium", scenarios |-> <<[kind |-> "object", irr_impact |-> <<>>]>>],
     [risk_level |-> "Medium", scenarios |-> <<GoodScenario, TextLossesScenario>>]}

\* What analyze_risks_with_fallback returns for them.
RemoteAnalyses ==
    {analyze_risks_with_fallback(
         ProjectParams(SoundProject, <<1500 * Unit>>, <<"Metro">>),
         ModelResults(SoundProject),
         Reply("ok", 200, "object", "content", "object", fields)).value :
       fields \in RenderedReplies}

ReportAnalyses ==
    RemoteAnalyses \cup
    {CompleteAnalysis,
     [risk_level |-> "Low"],
     [risk_level |-> "Moderate", reason |-> "r", estimated_payback |-> <<>>,
      business_score |-> <<>>, business_vision |-> ""],
     calculate_risk_fallback(SoundProject),
     calculate_risk_fallback(DistressedProject),
     [risk_level |-> "High", scenarios |-> <<GoodScenario, TextScenario>>],
     [risk_level |-> "High", scenarios |-> <<NullImpactScenario>>]}

NoReportCall ==
    [original_file_path |-> <<>>, risk_analysis |-> <<>>, save_outcome |-> "none",
     files_before |-> <<>>]
NoReport == ReportResult("not called", <<>>, <<>>, NotRendered)

IdleReport ==
    /\ files = <<>>
    /\ report_call = NoReportCall
    /\ report = NoReport

(***************************************************************************)
(* handlers/file_handler.py: handle_document, and utils/cleanup.py         *)
(***************************************************************************)
\* How many documents are being handled.
MaxWorkflows == 2
Workflows == 1..MaxWorkflows

\* The names documents are sent under: two workbooks and a text file.
FileNames ==
    {[stem |-> "model", xlsx |-> TRUE], [stem |-> "plan", xlsx |-> TRUE],
     [stem |-> "notes", xlsx |-> FALSE]}

\* Line 61: Config.TEMP_FILE_PATH / file_name.
TempPath(file_name) == <<file_name.stem>>

\* The document a user sent: a workbook whose sheet names the sender, with
\* or without the three required indicators.
Upload(w, complete) ==
    WorkbookFile(<<[title |-> "Model",
                    body |-> [original |-> ToString(w), complete |-> complete]]>>)

\* Lines 67-79: extract_project_data succeeds on a file that loads and has
\* the required indicators.
Extractable(file) ==
    /\ file.kind = "workbook"
    /\ Len(file.sheets) > 0
    /\ "complete" \in DOMAIN file.sheets[1].body
    /\ file.sheets[1].body.complete

\* utils/cleanup.py remove_file.
remove_file(fs, file_path) == IF file_path \in DOMAIN fs THEN Unlink(fs, file_path) ELSE fs

\* utils/cleanup.py cleanup_old_files: every file of the directory whose
\* age is above the limit is removed.
cleanup_old_files(fs, aged) == [q \in DOMAIN fs \ aged |-> fs[q]]

\* The temporary path of a workflow: line 61 uses the file name alone.
WorkflowTempPath(w, file_name) == TempPath(file_name)

\* A stage of the workflow that was run, and whether it succeeded.
Stage(name, ok) == [stage |-> name, ok |-> ok]

\* A handler that goes on to the analysis after a failed extraction.
StagesRun_ignoring_rejection(extracted, analysed, reported) ==
    <<Stage("extraction", extracted)>>
    \o <<Stage("analysis", analysed)>>
    \o (IF analysed THEN <<Stage("report", reported)>> ELSE <<>>)

\* Lines 66-125: the stages run once the document is stored.  Each of the
\* three try blocks ends the handler with a reply when its call raises.
StagesRun(extracted, analysed, reported) ==
    <<Stage("extraction", extracted)>>
    \o (IF extracted THEN <<Stage("analysis", analysed)>> ELSE <<>>)
    \o (IF extracted /\ analysed THEN <<Stage("report", reported)>> ELSE <<>>)

Ran(stages, name) == \E i \in 1..Len(stages) : stages[i].stage = name
Succeeded(stages, name) ==
    \E i \in 1..Len(stages) : stages[i].stage = name /\ stages[i].ok

Flow(pc, file_name, upload, output_file_path, accessed, stages) ==
    [pc |-> pc, file_name |-> file_name, upload |-> upload,
     output_file_path |-> output_file_path, accessed |-> accessed,
     stages |-> stages]
NoFlow == Flow("idle", <<>>, <<>>, <<>>, {}, <<>>)

IdleWorkflow ==
    /\ flow = [w \in Workflows |-> NoFlow]
    /\ old = {}
    /\ shared = {}

(***************************************************************************)
(* utils/cache.py: AnalysisCache.  An entry is the file of a key: absent   *)
(* (<<>>) or <<[data, age]>>, where data is a pickled result, "truncated"  *)
(* (the file as open(..., 'wb') leaves it) or "garbage" (bytes that        *)
(* pickle.load rejects), and age is the time since the file was modified.  *)
(***************************************************************************)
\* Line 29: ttl_hours * 3600, in the time unit of the model.
ttl_seconds == 2
MaxAge == ttl_seconds + 1

CacheKeys == {"k1", "k2"}
CachedResults == {"r1", "r2"}
NoEntry == <<>>
Entry(data, age) == <<[data |-> data, age |-> age]>>
Entries ==
    {NoEntry} \cup {Entry(d, a) : d \in CachedResults \cup {"truncated", "garbage"},
                                  a \in 0..MaxAge}

\* pickle.load succeeds on the file.
Loads(entry) == entry # NoEntry /\ entry[1].data \in CachedResults

\* Line 88.
Expired(entry) == entry # NoEntry /\ entry[1].age > ttl_seconds

\* A get that leaves an entry it could not load in place.
cache_get_keeping_corrupt(entry) ==
    IF entry = NoEntry THEN [value |-> <<>>, entry |-> entry]
    ELSE IF Expired(entry) THEN [value |-> <<>>, entry |-> NoEntry]
    ELSE IF Loads(entry) THEN [value |-> <<entry[1].data>>, entry |-> entry]
    ELSE [value |-> <<>>, entry |-> entry]

\* Lines 67-107, one uninterrupted call: the value returned (<<>> is None)
\* and the entry afterwards.
cache_get(entry) ==
    IF entry = NoEntry THEN [value |-> <<>>, entry |-> entry]
    ELSE IF Expired(entry) THEN [value |-> <<>>, entry |-> NoEntry]
    ELSE IF Loads(entry) THEN [value |-> <<entry[1].data>>, entry |-> entry]
    ELSE [value |-> <<>>, entry |-> NoEntry]

\* Lines 109-128, one uninterrupted call: open may fail, which leaves the
\* entry; pickle.dump may fail, which leaves the truncated file.
SetOutcomes == {"stored", "open fails", "dump fails"}
cache_set(entry, analysis_result, outcome) ==
    IF outcome = "open fails" THEN entry
    ELSE IF outcome = "dump fails" THEN Entry("truncated", 0)
    ELSE Entry(analysis_result, 0)

\* How many calls run at the same time.
MaxCalls == 2
Callers == 1..MaxCalls

Call(op, pc, key, value) == [op |-> op, pc |-> pc, key |-> key, value |-> value]
NoCall == Call("none", "idle", "", <<>>)
NoCacheCall == [op |-> "none", key |-> "", before |-> <<>>, value |-> <<>>]

IdleCache ==
    /\ cache = <<>>
    /\ cache_call = NoCacheCall
    /\ calls = <<>>
    /\ completed = <<>>

(***************************************************************************)
(* The worksheets find_cell_by_text is run on: cell values as openpyxl     *)
(* gives them (None, an int, a bool, a str), texts as sequences of         *)
(* characters, on a grid of two rows and two columns.                      *)
(***************************************************************************)
NoneValue == [kind |-> "none", n |-> 0, s |-> <<>>]
IntValue(n) == [kind |-> "int", n |-> n, s |-> <<>>]
BoolValue(b) == [kind |-> "bool", n |-> IF b THEN 1 ELSE 0, s |-> <<>>]
StrValue(s) == [kind |-> "str", n |-> 0, s |-> s]

DigitChars == <<"0", "1", "2", "3", "4", "5", "6", "7", "8", "9">>

\* str(value) of line 30, for the values above (ints below 100).
Str(value) ==
    IF value.kind = "str" THEN value.s
    ELSE IF value.kind = "bool"
         THEN IF value.n = 1 THEN <<"T", "r", "u", "e">> ELSE <<"F", "a", "l", "s", "e">>
    ELSE IF value.kind = "int"
         THEN IF value.n < 10 THEN <<DigitChars[value.n + 1]>>
              ELSE <<DigitChars[(value.n \div 10) + 1], DigitChars[(value.n % 10) + 1]>>
    ELSE <<"N", "o", "n", "e">>

\* str.lower() on the characters used.
LowerChar(ch) ==
    CASE ch = "N" -> "n" [] ch = "P" -> "p" [] ch = "V" -> "v"
      [] ch = "F" -> "f" [] ch = "T" -> "t" [] OTHER -> ch
Lower(s) == [i \in 1..Len(s) |-> LowerChar(s[i])]

\* Lines 25 and 30: lower-cased unless case_sensitive.
Folded(s, case_sensitive) == IF case_sensitive THEN s ELSE Lower(s)

\* `sub in s` of line 31.
Contains(sub, s) ==
    \E i \in 0..(Len(s) - Len(sub)) : SubSeq(s, i + 1, i + Len(sub)) = sub

FindTexts == {<<"0">>, <<"N", "P", "V">>, <<"n", "p", "v">>, <<"F">>}

\* The cell as find_cell_by_text sees it: its truth value (a bool is an
\* int in Python) and the search texts line 31 finds in it.
FindCell(value, case_sensitive) ==
    [t |-> IF value.kind = "none" THEN "none"
           ELSE IF value.kind = "str" THEN "str" ELSE "num",
     form |-> "none",
     v |-> value.n,
     pats |-> {search_text \in FindTexts :
                  Contains(Folded(search_text, case_sensitive),
                           Folded(Str(value), case_sensitive))},
     text |-> ""]

FindPositions == {<<1, 1>>, <<1, 2>>, <<2, 1>>, <<2, 2>>}
FindValues ==
    {NoneValue, IntValue(0), IntValue(10), BoolValue(FALSE),
     StrValue(<<"N", "P", "V">>), StrValue(<<"n", "p", "v", " ", "1", "0">>)}

NoFind ==
    [called |-> FALSE, worksheet |-> <<>>, search_text |-> <<>>,
     case_sensitive |-> FALSE, result |-> <<>>]

IdleFind == find = NoFind

(***************************************************************************)
(* The project data calculate_risk_fallback is run on: each of the keys    *)
(* the four checks read is absent (<<>>) or holds a value at, just beside  *)
(* or away from the threshold of its check.                                *)
(***************************************************************************)
FallbackNpv == {<<>>, <<0 - 1>>, <<0>>, <<200 * Unit>>}
FallbackIrr == {<<>>, <<10 * Unit - 1>>, <<10 * Unit>>, <<0 - 1>>}
FallbackDiscountRate == {<<>>, <<10 * Unit>>, <<0>>}
FallbackDebtShare == {<<>>, <<50 * Unit>>, <<50 * Unit + 1>>, <<30 * Unit>>}
FallbackPayback == {<<>>, <<10 * Unit>>, <<10 * Unit + 1>>, <<6 * Unit>>}

Optional(key, value) == IF value = <<>> THEN <<>> ELSE [k \in {key} |-> value[1]]

FallbackData(npv, irr, discount_rate, debt_share, payback_period) ==
    Merge(Merge(Merge(Merge(Merge([debt_rate |-> 8 * Unit, construction_years |-> 3 * Unit],
        Optional("npv", npv)), Optional("irr", irr)),
        Optional("discount_rate", discount_rate)), Optional("debt_share", debt_share)),
        Optional("payback_period", payback_period))

\* Projects none of the four checks holds for, whose debt rate,
\* construction time and discount rate are low or beyond the thresholds of
\* calculate_risk_score.
FallbackStrained ==
    {Merge(FallbackData(npv, discount_rate, discount_rate, <<50 * Unit>>, <<10 * Unit>>),
           [debt_rate |-> debt_rate, construction_years |-> construction_years]) :
        npv \in {<<0>>, <<200 * Unit>>},
        discount_rate \in {<<10 * Unit>>, <<25 * Unit + 1>>},
        debt_rate \in {8 * Unit, 20 * Unit + 1},
        construction_years \in {3 * Unit, 7 * Unit + 1}}

FallbackInputs ==
    {FallbackData(npv, irr, discount_rate, debt_share, payback_period) :
        npv \in FallbackNpv, irr \in FallbackIrr, discount_rate \in FallbackDiscountRate,
        debt_share \in FallbackDebtShare, payback_period \in FallbackPayback}
    \cup FallbackStrained

NoFallback == [called |-> FALSE, project_data |-> <<>>, result |-> <<>>]

IdleFallback == fallback = NoFallback

(***************************************************************************)
(* The scorer as a state machine: the inputs are drawn, the score is       *)
(* calculated, the score is bucketed.                                      *)
(***************************************************************************)
InitScore ==
    /\ phase = "start"
    /\ IdleFallback
    /\ IdleFind
    /\ IdleCache
    /\ IdleWorkflow
    /\ IdleReport
    /\ inp \in ScoreInputs
    /\ risk_score = Unset
    /\ risk_level = "unset"
    /\ IdleNear
    /\ IdleRemote
    /\ IdleExtract

CalculateRiskScore ==
    /\ phase = "start"
    /\ risk_score' = ScoreOf(inp)
    /\ phase' = "scored"
    /\ UNCHANGED <<inp, risk_level, nearVars, remoteVars, extractVars, reportVars, workflowVars, cacheVars, findVars, fallbackVars>>

ScoreToRiskLevel ==
    /\ phase = "scored"
    /\ risk_level' = score_to_risk_level(risk_score)
    /\ phase' = "levelled"
    /\ UNCHANGED <<inp, risk_score, nearVars, remoteVars, extractVars, reportVars, workflowVars, cacheVars, findVars, fallbackVars>>

NextScore == CalculateRiskScore \/ ScoreToRiskLevel

SpecScore == InitScore /\ [][NextScore]_vars

\* score_to_risk_level on its own, on every integer of ScoreArgs.
InitLevel ==
    /\ phase = "scored"
    /\ IdleFallback
    /\ IdleFind
    /\ IdleCache
    /\ IdleWorkflow
    /\ IdleReport
    /\ inp = SoundProject
    /\ risk_score \in ScoreArgs
    /\ risk_level = "unset"
    /\ IdleNear
    /\ IdleRemote
    /\ IdleExtract

NextLevel == ScoreToRiskLevel

SpecLevel == InitLevel /\ [][NextLevel]_vars

(***************************************************************************)
(* Claims about the scorer                                                 *)
(***************************************************************************)

\* C2: for every combination of the seven inputs (negative and zero values
\* included) calculate_risk_score returns an integer in 0..100; the call has
\* no failing path, so from every drawn input the score is produced.
C2_ScoreInRange ==
    /\ phase = "start" => ENABLED CalculateRiskScore
    /\ phase # "start" => risk_score \in 0..100

\* An input whose uncapped sum exceeds 100 has been scored.
C2_Witness ==
    /\ phase = "scored"
    /\ inp = DistressedProject
    /\ risk_score = 100

\* The rule table of the specification, with exact arithmetic: each of the
\* seven groups contributes at most one row.
RuleTablePoints(p) ==
    (IF p.npv < 0 THEN 40 ELSE IF 0 <= p.npv /\ p.npv < 50 * Unit THEN 20 ELSE 0)
    + (IF p.irr < p.discount_rate THEN 30
       ELSE IF p.discount_rate <= p.irr /\ 10 * p.irr < 11 * p.discount_rate
            THEN 15 ELSE 0)
    + (IF p.payback_period > 15 * Unit THEN 30
       ELSE IF 10 * Unit < p.payback_period /\ p.payback_period <= 15 * Unit THEN 20 ELSE 0)
    + (IF p.debt_share > 70 * Unit THEN 35
       ELSE IF 50 * Unit < p.debt_share /\ p.debt_share <= 70 * Unit THEN 25 ELSE 0)
    + (IF p.debt_rate > 20 * Unit THEN 30
       ELSE IF 15 * Unit < p.debt_rate /\ p.debt_rate <= 20 * Unit THEN 20 ELSE 0)
    + (IF p.construction_years > 7 * Unit THEN 25
       ELSE IF 5 * Unit < p.construction_years /\ p.construction_years <= 7 * Unit
            THEN 15 ELSE 0)
    + (IF p.discount_rate > 25 * Unit THEN 20
       ELSE IF 20 * Unit < p.discount_rate /\ p.discount_rate <= 25 * Unit THEN 10 ELSE 0)

\* C3: for every input calculate_risk_score equals min(100, the sum of the
\* points of the additive rule table); the distressed project gives 190
\* capped to 100 and the sound project gives 0.
C3_ScoreIsRuleTable ==
    phase # "start" =>
        /\ risk_score = Min(100, RuleTablePoints(inp))
        /\ inp = DistressedProject => RuleTablePoints(inp) = 190 /\ risk_score = 100
        /\ inp = SoundProject => risk_score = 0

LevelRank(l) ==
    CASE l = "Low" -> 0 [] l = "Medium" -> 1 [] l = "High" -> 2
      [] l = "Critical" -> 3

\* C4: score_to_risk_level is a step function with exactly three
\* breakpoints: <= 30 is Low, 31..60 Medium, 61..85 High, >= 86 Critical,
\* and the level never decreases as the score increases.
C4_StepFunction ==
    phase = "levelled" =>
        /\ risk_score <= 30 => risk_level = "Low"
        /\ risk_score \in 31..60 => risk_level = "Medium"
        /\ risk_score \in 61..85 => risk_level = "High"
        /\ risk_score >= 86 => risk_level = "Critical"
        /\ \A s \in ScoreArgs :
              s >= risk_score =>
                  LevelRank(score_to_risk_level(s)) >= LevelRank(risk_level)

\* A score on a breakpoint has been bucketed.
C4_Witness ==
    /\ phase = "levelled"
    /\ risk_score = 30
    /\ risk_level = "Low"

\* The inputs that differ from p in the one field f, which is at least as
\* adverse: higher, or lower for npv and irr.
Worsened(p, f) ==
    CASE f = "npv" -> {[p EXCEPT !.npv = v] : v \in {w \in NpvVals : w <= p.npv}}
      [] f = "irr" -> {[p EXCEPT !.irr = v] : v \in {w \in IrrVals : w <= p.irr}}
      [] f = "payback_period" ->
            {[p EXCEPT !.payback_period = v] :
                v \in {w \in PaybackVals : w >= p.payback_period}}
      [] f = "debt_share" ->
            {[p EXCEPT !.debt_share = v] :
                v \in {w \in DebtShareVals : w >= p.debt_share}}
      [] f = "debt_rate" ->
            {[p EXCEPT !.debt_rate = v] :
                v \in {w \in DebtRateVals : w >= p.debt_rate}}
      [] f = "construction_years" ->
            {[p EXCEPT !.construction_years = v] :
                v \in {w \in ConstructionVals : w >= p.construction_years}}
      [] f = "discount_rate" ->
            {[p EXCEPT !.discount_rate = v] :
                v \in {w \in DiscountVals : w >= p.discount_rate}}

ScoreFields ==
    {"npv", "irr", "payback_period", "debt_share", "debt_rate",
     "construction_years", "discount_rate"}

\* C5: calculate_risk_score is monotonically non-decreasing in each adverse
\* input with the other six held fixed: making one input more adverse never
\* gives a score below the one returned.
C5_Monotone ==
    phase # "start" =>
        \A f \in ScoreFields : \A q \in Worsened(inp, f) :
            ScoreOf(q) >= risk_score

\* A scored input that has a strictly worse neighbour in the irr/discount
\* coupling and sits under the cap: irr on the discount rate itself.
C5_Witness ==
    /\ phase = "scored"
    /\ inp.irr = 10 * Unit /\ inp.discount_rate = 10 * Unit
    /\ risk_score = 15
    /\ \E q \in Worsened(inp, "discount_rate") : ScoreOf(q) > risk_score

(***************************************************************************)
(* extract_project_data as a state machine: a workbook arrives and is      *)
(* extracted.                                                              *)
(***************************************************************************)
InitExtract ==
    /\ phase = "received"
    /\ IdleFallback
    /\ IdleFind
    /\ IdleCache
    /\ IdleWorkflow
    /\ IdleReport
    /\ IdleScore
    /\ IdleNear
    /\ IdleRemote
    /\ workbook \in Workbooks
    /\ extraction = NoExtraction

ExtractProjectData ==
    /\ phase = "received"
    /\ extraction' = extract_project_data(workbook)
    /\ phase' = "extracted"
    /\ UNCHANGED <<workbook, scoreVars, nearVars, remoteVars, reportVars, workflowVars, cacheVars, findVars, fallbackVars>>

NextExtract == ExtractProjectData

SpecExtract == InitExtract /\ [][NextExtract]_vars

(***************************************************************************)
(* Claims about extract_project_data                                       *)
(***************************************************************************)
C1_Required == {"npv", "irr", "payback_period"}

\* A field is unresolved when the data has no value for it or the value 0.
C1_Unresolved(data, field) == field \notin DOMAIN data \/ data[field] = 0

\* A field is located in the workbook when a sheet has a cell with one of
\* its synonyms.
C1_Located(field) ==
    \E n \in 1..Len(workbook.sheets) :
        \E i \in 1..Len(search_patterns[field]) :
            find_cell_by_text(workbook.sheets[n], search_patterns[field][i]) # <<>>

C1_Reported == {extraction.missing[i] : i \in 1..Len(extraction.missing)}

\* The statement of C1 as written: the extraction of a workbook that loads
\* fails iff a required field is unresolved after all the sheets, and a
\* required field that was located in the workbook is never reported as
\* missing.
C1_AsStated ==
    (phase = "extracted" /\ workbook.readable) =>
        /\ extraction.raised = "ValueError"
               <=> \E f \in C1_Required : C1_Unresolved(extraction.scanned, f)
        /\ \A f \in C1_Reported : ~C1_Located(f)

\* C1: the extraction of a workbook that loads fails with ValueError iff
\* at least one of npv, irr, payback_period is 0 in the data after all the
\* sheets have been scanned (no value was found for it, or the value found
\* is 0), and the error names exactly those fields; it succeeds, returning
\* the data, whenever only optional fields are 0; a required field for
\* which some sheet yielded a value other than 0 is never reported as
\* missing.  A workbook that does not load fails with ValueError as well.
C1_FailsIffRequiredIsZero ==
    phase = "extracted" =>
        IF ~workbook.readable THEN extraction.raised = "ValueError"
        ELSE /\ extraction.raised \in {"none", "ValueError"}
             /\ extraction.raised = "ValueError"
                    <=> \E f \in C1_Required : C1_Unresolved(extraction.scanned, f)
             /\ C1_Reported = {f \in C1_Required : C1_Unresolved(extraction.scanned, f)}
             /\ extraction.raised = "none" => extraction.value = extraction.scanned
             /\ \A n \in 1..Len(workbook.sheets) : \A f \in C1_Required :
                    ~C1_Unresolved(DataAfter(workbook.sheets, n), f)
                        => f \notin C1_Reported

\* A one-sheet workbook with the three labels and the values 0, 15 and 6:
\* the NPV is located, its value is 0, and the extraction fails naming npv.
C1_Witness ==
    /\ phase = "extracted"
    /\ workbook.readable
    /\ C1_Located("npv")
    /\ extraction.raised = "ValueError"
    /\ extraction.missing = <<"npv">>
    /\ extraction.scanned.irr = 15 * Unit
    /\ extraction.scanned.payback_period = 6 * Unit

(***************************************************************************)
(* The remote analyzer as a state machine: each step is one call of        *)
(* analyze_risks_with_fallback, with the reply the service gives to it.    *)
(***************************************************************************)
InitRemote ==
    /\ phase = "idle"
    /\ IdleFallback
    /\ IdleFind
    /\ IdleCache
    /\ IdleWorkflow
    /\ IdleReport
    /\ IdleScore
    /\ IdleNear
    /\ IdleRemote
    /\ IdleExtract

AnalyzeRisksWithFallback ==
    /\ \E i \in RemoteInputs : \E rep \in Replies :
          LET pp == ProjectParams(i[1], i[2], i[3])
              mr == ModelResults(i[1])
          IN  /\ request' = [made |-> TRUE, project_params |-> pp,
                             model_results |-> mr, seed |-> RequestSeed(pp, mr)]
              /\ reply' = rep
              /\ analysis' = analyze_risks_with_fallback(pp, mr, rep)
    /\ prev_request' = request
    /\ phase' = "analyzed"
    /\ UNCHANGED <<scoreVars, nearVars, extractVars, reportVars, workflowVars, cacheVars, findVars, fallbackVars>>

NextRemote == AnalyzeRisksWithFallback

SpecRemote == InitRemote /\ [][NextRemote]_vars

(***************************************************************************)
(* Claims about the remote analyzer and its fallback                       *)
(***************************************************************************)
\* The outcomes of the remote call that are failures: a timeout, a
\* transport error, a status other than 200, a body that is not JSON, a
\* reply of an unexpected shape, a reply without risk_level.
C6_RemoteFailed(r) ==
    \/ r.transport # "ok"
    \/ r.status # 200
    \/ r.body # "object"
    \/ r.choices = "no_message"
    \/ r.choices = "content" /\ r.content # "object"
    \/ "risk_level" \notin DOMAIN r.fields

\* The flat merge of project params and model results.
C6_FlatMerge(pp, mr) ==
    [k \in DOMAIN pp \cup DOMAIN mr |-> IF k \in DOMAIN mr THEN mr[k] ELSE pp[k]]

\* C6: analyze_risks_with_fallback never raises and always returns a
\* RiskAnalysis; after every failed outcome of the remote call the result
\* is exactly calculate_risk_fallback of the flat merge of project params
\* and model results, and only a 200 reply that passes validation is
\* returned as the remote result (with every key the reply had).
C6_AlwaysReturnsAnalysis ==
    phase = "analyzed" =>
        /\ analysis.raised = "none"
        /\ "risk_level" \in DOMAIN analysis.value
        /\ IF C6_RemoteFailed(reply)
           THEN analysis =
                    Returned(calculate_risk_fallback(
                                 C6_FlatMerge(request.project_params,
                                              request.model_results)),
                             "fallback")
           ELSE /\ analysis.source = "remote"
                /\ \A k \in DOMAIN reply.fields :
                       analysis.value[k] = reply.fields[k]

\* The distressed project, a 200 reply whose content lacks risk_level: the
\* fallback scored the merged data as Critical.
C6_Witness ==
    /\ phase = "analyzed"
    /\ reply.status = 200
    /\ reply.content = "object"
    /\ "risk_level" \notin DOMAIN reply.fields
    /\ request.model_results = ModelResults(DistressedProject)
    /\ analysis.source = "fallback"
    /\ analysis.value.risk_level = "Critical"

\* C7: every RiskAnalysis handed to the report writer, from the remote
\* analyzer or from the fallback scorer, has a risk_level that is one of
\* the four levels.
C7_LevelIsOneOfFour ==
    (phase = "analyzed" /\ analysis.raised = "none") =>
        analysis.value.risk_level \in RiskLevels

\* The numeric inputs of a call, a missing one being 0.
C8_Numbers(rq) ==
    <<Get(rq.project_params, "capex", 0),
      Get(rq.project_params, "construction_years", 0),
      Get(rq.project_params, "debt_share", 0),
      Get(rq.project_params, "debt_rate", 0),
      Get(rq.project_params, "discount_rate", 0),
      Get(rq.model_results, "npv", 0),
      Get(rq.model_results, "irr", 0),
      Get(rq.model_results, "payback_period", 0)>>

\* n rounded to 2 decimals, in hundredths (no input of the model is halfway
\* between two hundredths).
C8_Rounded(n) ==
    IF n < 0 THEN 0 - (((0 - n) * 10 ^ Decimals + Unit \div 2) \div Unit)
    ELSE (n * 10 ^ Decimals + Unit \div 2) \div Unit

C8_EqualAfterRounding(a, b) ==
    /\ \A i \in 1..8 : C8_Rounded(C8_Numbers(a)[i]) = C8_Rounded(C8_Numbers(b)[i])
    /\ Get(a.project_params, "type", "Not specified")
           = Get(b.project_params, "type", "Not specified")

\* C8: the seed of a request is in 0..2^31-2, and two calls whose project
\* params and model results are equal after rounding every numeric field
\* to 2 decimals, and whose type is equal, attach the same seed.
C8_SeedDeterministic ==
    request.made =>
        /\ request.seed \in 0..(SeedModulus - 1)
        /\ (prev_request.made /\ C8_EqualAfterRounding(prev_request, request))
               => request.seed = prev_request.seed

(***************************************************************************)
(* extract_value_near_cell as a state machine: cells are written into the  *)
(* worksheet, then the function is called at the label.                    *)
(***************************************************************************)
InitNear ==
    /\ phase = "authoring"
    /\ IdleFallback
    /\ IdleFind
    /\ IdleCache
    /\ IdleWorkflow
    /\ IdleReport
    /\ IdleScore
    /\ IdleNear
    /\ IdleRemote
    /\ IdleExtract

PutCell ==
    /\ phase = "authoring"
    /\ Cardinality(DOMAIN sheet) < MaxCells
    /\ \E pos \in NearCells \ DOMAIN sheet : \E content \in NearContents(pos) :
          sheet' = (pos :> content) @@ sheet
    /\ UNCHANGED <<phase, near, scoreVars, remoteVars, extractVars, reportVars, workflowVars, cacheVars, findVars, fallbackVars>>

ExtractValueNearCell ==
    /\ phase = "authoring"
    /\ near' = extract_value_near_cell(sheet, LabelAt[1], LabelAt[2])
    /\ phase' = "extracted"
    /\ UNCHANGED <<sheet, scoreVars, remoteVars, extractVars, reportVars, workflowVars, cacheVars, findVars, fallbackVars>>

NextNear == PutCell \/ ExtractValueNearCell

SpecNear == InitNear /\ [][NextNear]_vars

(***************************************************************************)
(* Claims about extract_value_near_cell                                    *)
(***************************************************************************)

\* The priority order the claim states, as offsets <<rows down, columns
\* right>> from the label.
C9_Order ==
    << <<0, 1>>, <<0, 2>>, <<0, 3>>, <<1, 0>>, <<1, 1>>, <<1, 2>>,
       <<2, 0>>, <<2, 1>> >>

\* The cell at offset number i of that order.
C9_Cell(i) ==
    CellValue(sheet, LabelAt[1] + C9_Order[i][1], LabelAt[2] + C9_Order[i][2])

\* A parseable number: a number, or a string holding one.
HoldsNumber(cell) ==
    \/ cell.t = "num"
    \/ cell.t = "str" /\ cell.form \in {"numeric", "embedded"}

\* C9: extract_value_near_cell honours the order right+1, right+2, right+3,
\* down+1, down+1/right+1, down+1/right+2, down+2, down+2/right+1: when
\* several of the eight cells hold a parseable number it returns the value
\* of the earliest one, and a candidate holding text without a number (or no
\* text at all) does not stop the search.
C9_PriorityOrder ==
    phase = "extracted" =>
        \A i \in 1..Len(C9_Order) :
            (HoldsNumber(C9_Cell(i)) /\ \A j \in 1..(i - 1) : ~HoldsNumber(C9_Cell(j)))
            => /\ near.found
               /\ near.value = C9_Cell(i).v
               /\ <<near.r, near.c>> =
                     <<LabelAt[1] + C9_Order[i][1], LabelAt[2] + C9_Order[i][2]>>

\* right+1 and down+1 both hold a number (the one at right+1 inside a
\* string), and the call returned the one at right+1.
C9_Witness ==
    /\ phase = "extracted"
    /\ C9_Cell(1).t = "str" /\ C9_Cell(1).form = "embedded"
    /\ C9_Cell(4).t = "num"
    /\ near = Found(1, LabelAt[1], LabelAt[2] + 1, "near_text")

\* The cell i columns right of the label, and the cell i rows below it.
RightOf(i) == CellValue(sheet, LabelAt[1], LabelAt[2] + i)
Below(i) == CellValue(sheet, LabelAt[1] + i, LabelAt[2])

\* C10: a number reachable only by the ray search, 4 to 10 cells right of
\* the label in its row, is still returned (it is the first number the ray
\* search meets: none nearer in the row, none nearer below the label), and
\* the ray search is consulted only after all eight offsets failed: whenever
\* one of them holds a parseable number the result is found by the first
\* loop, at one of the eight offsets, and no cell of the ray search decides
\* it.
C10_RayAfterProximity ==
    phase = "extracted" =>
        /\ (\E i \in 1..Len(C9_Order) : HoldsNumber(C9_Cell(i)))
           => /\ near.found
              /\ near.how \in {"near", "near_text"}
              /\ \E i \in 1..Len(C9_Order) :
                    <<near.r - LabelAt[1], near.c - LabelAt[2]>> = C9_Order[i]
        /\ near.how \in {"row", "column"}
           => \A i \in 1..Len(C9_Order) : ~HoldsNumber(C9_Cell(i))
        /\ \A k \in 4..RayLength :
              ( /\ \A i \in 1..Len(C9_Order) : ~HoldsNumber(C9_Cell(i))
                /\ FloatOf(RightOf(k)).ok
                /\ \A j \in 4..(k - 1) : ~FloatOf(RightOf(j)).ok
                /\ \A j \in 3..(k - 1) : ~FloatOf(Below(j)).ok )
              => near = Found(RightOf(k).v, LabelAt[1], LabelAt[2] + k, "row")

\* The only number is 7 cells right of the label, text without a number
\* stands at right+1, and the call returned the number from the row.
C10_Witness ==
    /\ phase = "extracted"
    /\ C9_Cell(1).t = "str" /\ C9_Cell(1).form = "plain"
    /\ RightOf(7).t = "num"
    /\ near = Found(7, LabelAt[1], LabelAt[2] + 7, "row")

(***************************************************************************)
(* create_risk_analysis_sheet as a state machine: a directory is given and *)
(* the function is called for model.xlsx.                                  *)
(***************************************************************************)
InitReport ==
    /\ phase = "ready"
    /\ IdleFallback
    /\ IdleFind
    /\ IdleCache
    /\ IdleWorkflow
    /\ IdleScore
    /\ IdleNear
    /\ IdleRemote
    /\ IdleExtract
    /\ files \in ReportFileSystems
    /\ report_call = NoReportCall
    /\ report = NoReport

CreateRiskAnalysisSheet ==
    /\ phase = "ready"
    /\ \E risk_analysis \in ReportAnalyses : \E save_outcome \in SaveOutcomes :
          LET result == create_risk_analysis_sheet(
                            files, OriginalPath, ProjectParams(SoundProject, <<1500 * Unit>>, <<"Metro">>),
                            ModelResults(SoundProject), risk_analysis, save_outcome)
          IN  /\ report_call' = [original_file_path |-> OriginalPath,
                                 risk_analysis |-> risk_analysis,
                                 save_outcome |-> save_outcome,
                                 files_before |-> files]
              /\ report' = result
              /\ files' = result.files
    /\ phase' = "reported"
    /\ UNCHANGED <<scoreVars, nearVars, remoteVars, extractVars, workflowVars, cacheVars, findVars, fallbackVars>>

NextReport == CreateRiskAnalysisSheet

SpecReport == InitReport /\ [][NextReport]_vars

(***************************************************************************)
(* Claims about create_risk_analysis_sheet                                 *)
(***************************************************************************)
C11_Output == OutputPath(report_call.original_file_path)

\* The sheets of the original file without those titled "Анализ_рисков".
C11_Kept ==
    SelectSeq(report_call.files_before[report_call.original_file_path].sheets,
              LAMBDA sh : sh.title # ReportTitle)

\* C11: create_risk_analysis_sheet leaves the original file, and every
\* file but the one at the output path, as it was; when it succeeds it
\* returns the output path, and the workbook there holds the original
\* sheets without any sheet named "Анализ_рисков", followed by exactly one
\* new sheet of that name.
C11_WritesOnlyTheCopy ==
    phase = "reported" =>
        /\ DOMAIN files \subseteq DOMAIN report_call.files_before \cup {C11_Output}
        /\ \A p \in DOMAIN report_call.files_before \ {C11_Output} :
              p \in DOMAIN files /\ files[p] = report_call.files_before[p]
        /\ report.raised = "none" =>
              /\ report.value = C11_Output
              /\ report.value # report_call.original_file_path
              /\ files[C11_Output].kind = "workbook"
              /\ files[C11_Output].sheets =
                     Append(C11_Kept, [title |-> ReportTitle, body |-> report.rendered.body])
              /\ Cardinality({i \in 1..Len(files[C11_Output].sheets) :
                                 files[C11_Output].sheets[i].title = ReportTitle}) = 1

\* A workbook that came with a sheet "Анализ_рисков" of its own, and an
\* output file of an earlier run: the call succeeded and replaced both.
C11_Witness ==
    /\ phase = "reported"
    /\ report.raised = "none"
    /\ C11_Output \in DOMAIN report_call.files_before
    /\ Len(C11_Kept) = 2
    /\ Len(report_call.files_before[report_call.original_file_path].sheets) = 3
    /\ Len(files[C11_Output].sheets) = 3

\* C12: whenever create_risk_analysis_sheet fails after it made the copy
\* (while rendering, while saving, or in the validation after the save), no
\* file remains at the output path.
C12_NoOutputAfterFailure ==
    (/\ phase = "reported"
     /\ report.raised = "ValueError"
     /\ report.rendered.raised # "not run")
        => C11_Output \notin DOMAIN files

\* The optional keys of a RiskAnalysis the sheet is written from.
C13_Absent(key) == key \notin DOMAIN report_call.risk_analysis

\* C13: rendering a RiskAnalysis whose scenarios and total are absent (or
\* are all writable) never raises, and for each absent optional field the sheet has
\* the placeholder or omits the section: no scenario table, no total, no
\* recommendations, no vision, and no estimated-payback line.
C13_AbsentFieldsRender ==
    (phase = "reported" /\ report.rendered.raised # "not run") =>
        /\ (/\ \/ C13_Absent("scenarios")
                \/ \A i \in 1..Len(report_call.risk_analysis.scenarios) :
                      /\ report_call.risk_analysis.scenarios[i].kind = "object"
                      /\ \A k \in {"npv_impact", "irr_impact", "potential_losses"} :
                            k \in DOMAIN report_call.risk_analysis.scenarios[i]
                                => IsNumber(report_call.risk_analysis.scenarios[i][k])
             /\ \/ C13_Absent("total_potential_losses")
                \/ IsNumber(report_call.risk_analysis.total_potential_losses))
               => report.rendered.raised = "none"
        /\ report.rendered.raised = "none" =>
              /\ C13_Absent("reason") => report.rendered.body.reason = "Not provided"
              /\ C13_Absent("critical_factors")
                    => report.rendered.body.critical_factors = <<"None identified">>
              /\ C13_Absent("scenarios") => report.rendered.body.scenarios = <<>>
              /\ C13_Absent("total_potential_losses")
                    => report.rendered.body.total_losses = <<>>
              /\ C13_Absent("risk_mitigation")
                    => report.rendered.body.risk_mitigation = <<>>
              /\ C13_Absent("business_vision")
                    => report.rendered.body.business_vision = <<>>
              /\ C13_Absent("estimated_payback")
                    => report.rendered.body.estimated_payback = <<>>

\* The fallback result of the distressed project, which has neither
\* business_score nor estimated_payback nor business_vision, was rendered.
C13_Witness ==
    /\ phase = "reported"
    /\ report_call.risk_analysis = calculate_risk_fallback(DistressedProject)
    /\ C13_Absent("estimated_payback")
    /\ C13_Absent("business_score")
    /\ report.rendered.raised = "none"
    /\ report.rendered.body.estimated_payback = <<>>
    /\ report.rendered.body.risk_level = "Critical"

\* The keys every result of analyze_risks is expected to have.
C14_Keys ==
    {"risk_level", "scenarios", "total_potential_losses", "risk_mitigation",
     "business_vision", "estimated_payback", "business_score"}

\* The empty or absent value of each key but risk_level.
C14_Default ==
    [scenarios |-> <<>>, total_potential_losses |-> <<0>>, risk_mitigation |-> <<>>,
     business_vision |-> "", estimated_payback |-> <<>>, business_score |-> <<>>]

\* C14: a result that analyze_risks returned has all seven keys
\* risk_level, scenarios, total_potential_losses, risk_mitigation,
\* business_vision, estimated_payback and business_score; a key the reply
\* had keeps the reply's value, and a key it lacked has the default.
C14_AllKeysPresent ==
    analysis.source = "remote" =>
        /\ DOMAIN analysis.value = DOMAIN reply.fields \cup C14_Keys
        /\ \A k \in DOMAIN reply.fields : analysis.value[k] = reply.fields[k]
        /\ \A k \in C14_Keys \ DOMAIN reply.fields : analysis.value[k] = C14_Default[k]

\* A reply with some of the keys, one of them null, was completed.
C14_Witness ==
    /\ analysis.source = "remote"
    /\ reply.fields = PartialReply
    /\ analysis.value.scenarios = <<"s">>
    /\ analysis.value.business_score = <<64>>
    /\ analysis.value.business_vision = ""
    /\ analysis.value.total_potential_losses = <<0>>

(***************************************************************************)
(* handle_document as a state machine.  The handler is a coroutine: it     *)
(* gives up control at its awaits (the replies, get_file, the download,    *)
(* reply_document) and runs without interruption between them; extraction, *)
(* the analysis and the report are synchronous calls.  Workflows take      *)
(* their steps in any order.  Five minutes may pass at any moment, after   *)
(* which every file of the directory is older than the cleanup limit.      *)
(***************************************************************************)
InitWorkflow ==
    /\ phase = "serving"
    /\ IdleFallback
    /\ IdleFind
    /\ IdleCache
    /\ IdleScore
    /\ IdleNear
    /\ IdleRemote
    /\ IdleExtract
    /\ files = <<>>
    /\ report_call = NoReportCall
    /\ report = NoReport
    /\ IdleWorkflow

\* A workflow between line 35 and its return.
InFlight(w) == flow[w].pc \in {"received", "downloading", "sending"}

\* Those of the paths that another workflow in flight has read, written or
\* deleted.
SharedWith(w, paths) ==
    {p \in paths : \E w2 \in Workflows \ {w} : InFlight(w2) /\ p \in flow[w2].accessed}

\* Lines 26-41: a document arrives and is acknowledged.
Receive(w) ==
    /\ flow[w].pc = "idle"
    /\ \E file_name \in FileNames : \E complete \in BOOLEAN :
          flow' = [flow EXCEPT ![w] = Flow("received", file_name, Upload(w, complete), <<>>, {}, <<>>)]
    /\ UNCHANGED <<phase, scoreVars, nearVars, remoteVars, extractVars, reportVars, old, shared, cacheVars, findVars, fallbackVars>>

\* Lines 46-59: the extension check, then get_file.
Validate(w) ==
    /\ flow[w].pc = "received"
    /\ flow' = [flow EXCEPT ![w].pc = IF flow[w].file_name.xlsx THEN "downloading" ELSE "done"]
    /\ UNCHANGED <<phase, scoreVars, nearVars, remoteVars, extractVars, reportVars, old, shared, cacheVars, findVars, fallbackVars>>

\* Lines 61-131: the download ends, the file is read, analysed and the
\* report written and opened; the handler then awaits reply_document.  A
\* failed download leaves through the handler of line 235, which removes
\* the temporary file.  The report is written only if extraction and
\* analysis were run and succeeded.
Process(w) ==
    /\ flow[w].pc = "downloading"
    /\ \E downloaded \in BOOLEAN : \E analysed \in BOOLEAN :
       \E save_outcome \in {"saved", "raises"} :
          LET temp_file_path == WorkflowTempPath(w, flow[w].file_name)
              stored == WriteFile(files, temp_file_path, flow[w].upload)
              result == create_risk_analysis_sheet(
                            stored, temp_file_path,
                            ProjectParams(SoundProject, <<1500 * Unit>>, <<"Metro">>),
                            ModelResults(SoundProject), CompleteAnalysis, save_outcome)
              extracted == Extractable(stored[temp_file_path])
              stages == IF downloaded
                        THEN StagesRun(extracted, analysed, result.raised = "none")
                        ELSE <<>>
              reporting == Ran(stages, "report")
              touched == IF reporting THEN {temp_file_path, OutputPath(temp_file_path)}
                         ELSE {temp_file_path}
          IN  /\ files' = IF ~downloaded THEN remove_file(files, temp_file_path)
                          ELSE IF ~reporting THEN stored
                          ELSE result.files
              /\ flow' = [flow EXCEPT ![w] =
                             IF Succeeded(stages, "report")
                             THEN Flow("sending", flow[w].file_name, flow[w].upload,
                                       result.value, touched, stages)
                             ELSE Flow("done", flow[w].file_name, flow[w].upload, <<>>,
                                       touched, stages)]
              /\ old' = IF downloaded THEN old \ touched ELSE old \ {temp_file_path}
              /\ shared' = shared \cup SharedWith(w, touched)
    /\ UNCHANGED <<phase, scoreVars, nearVars, remoteVars, extractVars, report_call, report, cacheVars, findVars, fallbackVars>>

\* Lines 131-244: reply_document returns and the messages are sent, then
\* the temporary file and every old file are removed; or reply_document
\* fails and the handler returns after its reply (lines 215-219).
Sent(w) ==
    /\ flow[w].pc = "sending"
    /\ \E delivered \in BOOLEAN :
          LET temp_file_path == WorkflowTempPath(w, flow[w].file_name)
              removed == IF delivered
                         THEN ({temp_file_path} \cup old) \cap DOMAIN files
                         ELSE {}
          IN  /\ files' = IF delivered
                          THEN cleanup_old_files(remove_file(files, temp_file_path), old)
                          ELSE files
              /\ flow' = [flow EXCEPT ![w].pc = "done",
                                      ![w].accessed = flow[w].accessed \cup removed,
                                      ![w].stages = Append(@, Stage("delivery", delivered))]
              /\ old' = old \ removed
              /\ shared' = shared \cup SharedWith(w, removed)
    /\ UNCHANGED <<phase, scoreVars, nearVars, remoteVars, extractVars, report_call, report, cacheVars, findVars, fallbackVars>>

\* Five minutes pass.
Tick ==
    /\ old # DOMAIN files
    /\ old' = DOMAIN files
    /\ UNCHANGED <<phase, scoreVars, nearVars, remoteVars, extractVars, reportVars, flow, shared, cacheVars, findVars, fallbackVars>>

NextWorkflow ==
    \/ \E w \in Workflows : Receive(w)
    \/ \E w \in Workflows : Validate(w)
    \/ \E w \in Workflows : Process(w)
    \/ \E w \in Workflows : Sent(w)
    \/ Tick

SpecWorkflow == InitWorkflow /\ [][NextWorkflow]_vars

InitCache ==
    /\ phase = "caching"
    /\ IdleFallback
    /\ IdleFind
    /\ IdleScore
    /\ IdleNear
    /\ IdleRemote
    /\ IdleExtract
    /\ IdleReport
    /\ IdleWorkflow
    /\ cache \in [CacheKeys -> Entries]
    /\ cache_call = NoCacheCall
    /\ calls = <<>>
    /\ completed = <<>>

CacheGet ==
    /\ \E key \in CacheKeys :
          LET got == cache_get(cache[key])
          IN  /\ cache' = [cache EXCEPT ![key] = got.entry]
              /\ cache_call' = [op |-> "get", key |-> key, before |-> cache,
                                value |-> got.value]
    /\ UNCHANGED <<phase, scoreVars, nearVars, remoteVars, extractVars, reportVars, workflowVars, calls, completed, findVars, fallbackVars>>

CacheSet ==
    /\ \E key \in CacheKeys : \E analysis_result \in CachedResults :
       \E outcome \in SetOutcomes :
          /\ cache' = [cache EXCEPT ![key] = cache_set(cache[key], analysis_result, outcome)]
          /\ cache_call' = [op |-> "set", key |-> key, before |-> cache,
                            value |-> <<analysis_result>>]
    /\ UNCHANGED <<phase, scoreVars, nearVars, remoteVars, extractVars, reportVars, workflowVars, calls, completed, findVars, fallbackVars>>

\* Time passes: every file is one unit older (ages above the TTL are not
\* told apart).
Older(entry) ==
    IF entry = NoEntry THEN entry
    ELSE Entry(entry[1].data, IF entry[1].age < MaxAge THEN entry[1].age + 1 ELSE MaxAge)

CacheTick ==
    /\ \E key \in CacheKeys : cache[key] # NoEntry /\ cache[key][1].age < MaxAge
    /\ cache' = [key \in CacheKeys |-> Older(cache[key])]
    /\ cache_call' = [op |-> "tick", key |-> "", before |-> cache, value |-> <<>>]
    /\ UNCHANGED <<phase, scoreVars, nearVars, remoteVars, extractVars, reportVars, workflowVars, calls, completed, findVars, fallbackVars>>

NextCache == CacheGet \/ CacheSet \/ CacheTick

SpecCache == InitCache /\ [][NextCache]_vars

\* The entry the last get found.
C17_Found == cache_call.before[cache_call.key]

\* C17: a get returns a result only if the entry exists, loads and is not
\* older than the TTL, and then it is the stored result; when the entry is
\* older than the TTL or does not load, the get returns None and the key
\* has no entry afterwards.
C17_GetReturnsFreshOrDeletes ==
    cache_call.op = "get" =>
        /\ cache_call.value # <<>> =>
              /\ C17_Found # NoEntry
              /\ C17_Found[1].data \in CachedResults
              /\ C17_Found[1].age <= ttl_seconds
              /\ cache_call.value = <<C17_Found[1].data>>
        /\ (C17_Found # NoEntry
            /\ (C17_Found[1].age > ttl_seconds \/ C17_Found[1].data \notin CachedResults))
              => cache_call.value = <<>> /\ cache[cache_call.key] = NoEntry
        /\ \A key \in CacheKeys \ {cache_call.key} : cache[key] = cache_call.before[key]

\* A get found an entry of exactly the TTL's age and returned it; the
\* other key held a fresh file that does not load.
C17_WitnessFresh ==
    /\ cache_call.op = "get"
    /\ C17_Found = Entry("r1", ttl_seconds)
    /\ cache_call.value = <<"r1">>
    /\ cache[cache_call.key] = C17_Found

\* A get found a fresh file that does not load and removed it.
C17_Witness ==
    /\ cache_call.op = "get"
    /\ C17_Found = Entry("truncated", 0)
    /\ cache_call.value = <<>>
    /\ cache[cache_call.key] = NoEntry

(***************************************************************************)
(* AnalysisCache used by several callers at once (threads or processes on  *)
(* one cache directory).  A call is a sequence of file-system operations,  *)
(* each of them one step: for get the exists test (81), stat (87), the     *)
(* unlink of an expired file (90), open and pickle.load (94-95) and the    *)
(* unlink of the handler (104); for set the open for writing (122), which  *)
(* truncates the file, and the dump and close (123).  No time passes.      *)
(***************************************************************************)
InitCacheRace ==
    /\ phase = "caching"
    /\ IdleFallback
    /\ IdleFind
    /\ IdleScore
    /\ IdleNear
    /\ IdleRemote
    /\ IdleExtract
    /\ IdleReport
    /\ IdleWorkflow
    /\ cache \in [CacheKeys -> {NoEntry, Entry("r1", 0), Entry("r1", MaxAge)}]
    /\ cache_call = NoCacheCall
    /\ calls = [c \in Callers |-> NoCall]
    /\ completed = [key \in CacheKeys |-> {}]

RaceFrame ==
    UNCHANGED <<phase, scoreVars, nearVars, remoteVars, extractVars, reportVars, workflowVars, cache_call, findVars, fallbackVars>>

At(c, op, pc) == calls[c].op = op /\ calls[c].pc = pc
Goto(c, pc) == calls' = [calls EXCEPT ![c].pc = pc]
Return(c, value) == calls' = [calls EXCEPT ![c].pc = "done", ![c].value = value]

\* Lines 78-79.
StartGet(c) ==
    /\ calls[c].op = "none"
    /\ \E key \in CacheKeys : calls' = [calls EXCEPT ![c] = Call("get", "exists", key, <<>>)]
    /\ UNCHANGED <<cache, completed, findVars, fallbackVars>> /\ RaceFrame

\* Lines 81-83.
GetExists(c) ==
    /\ At(c, "get", "exists")
    /\ IF cache[calls[c].key] = NoEntry THEN Return(c, <<>>) ELSE Goto(c, "stat")
    /\ UNCHANGED <<cache, completed, findVars, fallbackVars>> /\ RaceFrame

\* Lines 87-88: stat raises when the file is gone.
GetStat(c) ==
    /\ At(c, "get", "stat")
    /\ IF cache[calls[c].key] = NoEntry THEN Goto(c, "handler")
       ELSE IF Expired(cache[calls[c].key]) THEN Goto(c, "expired")
       ELSE Goto(c, "load")
    /\ UNCHANGED <<cache, completed, findVars, fallbackVars>> /\ RaceFrame

\* Lines 89-91: unlink raises when the file is gone.
GetUnlinkExpired(c) ==
    /\ At(c, "get", "expired")
    /\ IF cache[calls[c].key] = NoEntry
       THEN Goto(c, "handler") /\ UNCHANGED cache
       ELSE Return(c, <<>>) /\ cache' = [cache EXCEPT ![calls[c].key] = NoEntry]
    /\ UNCHANGED completed /\ RaceFrame

\* Lines 94-98.
GetLoad(c) ==
    /\ At(c, "get", "load")
    /\ IF Loads(cache[calls[c].key])
       THEN Return(c, <<cache[calls[c].key][1].data>>)
       ELSE Goto(c, "handler")
    /\ UNCHANGED <<cache, completed, findVars, fallbackVars>> /\ RaceFrame

\* Lines 100-107.
GetHandler(c) ==
    /\ At(c, "get", "handler")
    /\ cache' = [cache EXCEPT ![calls[c].key] = NoEntry]
    /\ Return(c, <<>>)
    /\ UNCHANGED completed /\ RaceFrame

\* Lines 118-119.
StartSet(c) ==
    /\ calls[c].op = "none"
    /\ \E key \in CacheKeys : \E analysis_result \in CachedResults :
          calls' = [calls EXCEPT ![c] = Call("set", "open", key, <<analysis_result>>)]
    /\ UNCHANGED <<cache, completed, findVars, fallbackVars>> /\ RaceFrame

\* Line 122.
SetOpen(c) ==
    /\ At(c, "set", "open")
    /\ cache' = [cache EXCEPT ![calls[c].key] = Entry("truncated", 0)]
    /\ Goto(c, "dump")
    /\ UNCHANGED completed /\ RaceFrame

\* Lines 123-125: the bytes reach the file when it is closed; if the file
\* was unlinked meanwhile they go to a file that has no name any more.
SetDump(c) ==
    /\ At(c, "set", "dump")
    /\ cache' = [cache EXCEPT ![calls[c].key] =
                     IF @ = NoEntry THEN NoEntry ELSE Entry(calls[c].value[1], 0)]
    /\ completed' = [completed EXCEPT ![calls[c].key] = @ \cup {calls[c].value[1]}]
    /\ Return(c, calls[c].value)
    /\ RaceFrame

NextCacheRace ==
    \/ \E c \in Callers : StartGet(c)
    \/ \E c \in Callers : GetExists(c)
    \/ \E c \in Callers : GetStat(c)
    \/ \E c \in Callers : GetUnlinkExpired(c)
    \/ \E c \in Callers : GetLoad(c)
    \/ \E c \in Callers : GetHandler(c)
    \/ \E c \in Callers : StartSet(c)
    \/ \E c \in Callers : SetOpen(c)
    \/ \E c \in Callers : SetDump(c)

SpecCacheRace == InitCacheRace /\ [][NextCacheRace]_vars

\* A set on the key is between its open and its close.
C16_Writing(key) ==
    \E c \in Callers : calls[c].op = "set" /\ calls[c].key = key /\ calls[c].pc = "dump"

\* C16: under every interleaving of get and set calls on a key, a get
\* returns None or a complete result that a set wrote, and once a set has
\* completed (and no later writer is at work) the entry is there and holds
\* the result of a completed set.
C16_CompletedSetStaysReadable ==
    /\ \A c \in Callers :
          (calls[c].op = "get" /\ calls[c].pc = "done" /\ calls[c].value # <<>>)
              => calls[c].value[1] \in CachedResults
    /\ \A key \in CacheKeys :
          (completed[key] # {} /\ ~C16_Writing(key))
              => Loads(cache[key]) /\ cache[key][1].data \in completed[key]

(***************************************************************************)
(* find_cell_by_text as a state machine: a worksheet is given and one      *)
(* search is made on it.                                                   *)
(***************************************************************************)
InitFind ==
    /\ phase = "ready"
    /\ IdleFallback
    /\ IdleScore
    /\ IdleNear
    /\ IdleRemote
    /\ IdleExtract
    /\ IdleReport
    /\ IdleWorkflow
    /\ IdleCache
    /\ \E worksheet \in [FindPositions -> FindValues] :
          find = [NoFind EXCEPT !.worksheet = worksheet]

FindCellByText ==
    /\ phase = "ready"
    /\ \E search_text \in FindTexts : \E case_sensitive \in BOOLEAN :
          find' = [called |-> TRUE, worksheet |-> find.worksheet,
                   search_text |-> search_text, case_sensitive |-> case_sensitive,
                   result |-> find_cell_by_text(
                                  [p \in FindPositions |->
                                      FindCell(find.worksheet[p], case_sensitive)],
                                  search_text)]
    /\ phase' = "found"
    /\ UNCHANGED <<scoreVars, nearVars, remoteVars, extractVars, reportVars, workflowVars, cacheVars, fallbackVars>>

NextFind == FindCellByText

SpecFind == InitFind /\ [][NextFind]_vars

\* The non-empty cells whose string representation contains the label.
C18_Matches ==
    {p \in FindPositions :
        /\ find.worksheet[p].kind # "none"
        /\ Contains(Folded(find.search_text, find.case_sensitive),
                    Folded(Str(find.worksheet[p]), find.case_sensitive))}

\* C18: find_cell_by_text returns the first cell, in row-major order over
\* the non-empty cells, whose string representation contains the label
\* (lower-cased unless case_sensitive), and None exactly when no non-empty
\* cell contains it.
C18_FirstContainingCell ==
    find.called =>
        IF C18_Matches = {} THEN find.result = <<>>
        ELSE /\ find.result # <<>>
             /\ find.result[1] \in C18_Matches
             /\ \A q \in C18_Matches :
                   q = find.result[1] \/ RowMajorBefore(find.result[1], q)

(***************************************************************************)
(* calculate_risk_fallback as a state machine: project data is given and   *)
(* the function is called on it.                                           *)
(***************************************************************************)
InitFallback ==
    /\ phase = "ready"
    /\ IdleScore
    /\ IdleNear
    /\ IdleRemote
    /\ IdleExtract
    /\ IdleReport
    /\ IdleWorkflow
    /\ IdleCache
    /\ IdleFind
    /\ \E project_data \in FallbackInputs :
          fallback = [NoFallback EXCEPT !.project_data = project_data]

CalculateRiskFallback ==
    /\ phase = "ready"
    /\ fallback' = [called |-> TRUE, project_data |-> fallback.project_data,
                    result |-> calculate_risk_fallback(fallback.project_data)]
    /\ phase' = "scored"
    /\ UNCHANGED <<scoreVars, nearVars, remoteVars, extractVars, reportVars, workflowVars, cacheVars, findVars>>

NextFallback == CalculateRiskFallback

SpecFallback == InitFallback /\ [][NextFallback]_vars

\* The four checks on the project data, a missing value being 0, and the
\* factor each of them stands for.
C19_Holds ==
    <<Get(fallback.project_data, "npv", 0) < 0,
      Get(fallback.project_data, "irr", 0) < Get(fallback.project_data, "discount_rate", 0),
      Get(fallback.project_data, "debt_share", 0) > 50 * Unit,
      Get(fallback.project_data, "payback_period", 0) > 10 * Unit>>
C19_Names ==
    <<"negative NPV", "IRR below the discount rate", "high debt share", "long payback">>
C19_Placeholder == "detailed analysis required"
C19_Factors == fallback.result.critical_factors

\* C19: the critical factors of calculate_risk_fallback are the factors of
\* those of the four checks that hold (npv < 0, irr < discount_rate,
\* debt_share > 50, payback_period > 10), each once and in that order, and
\* nothing else; the list is the single placeholder if and only if none of
\* the four checks holds.
C19_FactorsAreTheChecks ==
    fallback.called =>
        /\ \A i \in 1..4 :
              C19_Holds[i] <=> \E j \in 1..Len(C19_Factors) : C19_Factors[j] = C19_Names[i]
        /\ \A j \in 1..Len(C19_Factors) :
              \/ C19_Factors = <<C19_Placeholder>>
              \/ \E i \in 1..4 :
                    /\ C19_Factors[j] = C19_Names[i]
                    /\ \A k \in 1..Len(C19_Factors) : \A h \in 1..4 :
                          (k < j /\ C19_Factors[k] = C19_Names[h]) => h < i
        /\ C19_Factors = <<C19_Placeholder>> <=> \A i \in 1..4 : ~C19_Holds[i]

\* All four checks hold, two of them by the smallest margin, and the four
\* factors are listed.
C19_Witness ==
    /\ fallback.called
    /\ \A i \in 1..4 : C19_Holds[i]
    /\ Get(fallback.project_data, "debt_share", 0) = 50 * Unit + 1
    /\ Get(fallback.project_data, "irr", 0) = 10 * Unit - 1
    /\ C19_Factors = C19_Names

\* No check holds, three of the values being on their thresholds, and the
\* placeholder is returned.
C19_WitnessNone ==
    /\ fallback.called
    /\ \A i \in 1..4 : ~C19_Holds[i]
    /\ Get(fallback.project_data, "debt_share", 0) = 50 * Unit
    /\ Get(fallback.project_data, "payback_period", 0) = 10 * Unit
    /\ Get(fallback.project_data, "irr", 0) = 10 * Unit
    /\ C19_Factors = <<C19_Placeholder>>

\* C20: in the ray search the row is scanned before the column: when the
\* eight offsets hold no number and some cell 1..10 to the right of the
\* label holds one, the nearest such cell is returned, whatever the column
\* below the label holds.
C20_RowBeforeColumn ==
    phase = "extracted" =>
        \A k \in 1..RayLength :
            ( /\ \A i \in 1..Len(C9_Order) : ~HoldsNumber(C9_Cell(i))
              /\ FloatOf(RightOf(k)).ok
              /\ \A j \in 1..(k - 1) : ~FloatOf(RightOf(j)).ok )
            => near = Found(RightOf(k).v, LabelAt[1], LabelAt[2] + k, "row")

\* A string with a number inside it, such as "30%".
C21_Embedded(cell) == cell.t = "str" /\ cell.form = "embedded"

\* No cell of the eight offsets and no cell of the two rays but the one at
\* the position holds a number.
C21_OnlyCandidate(pos) ==
    /\ \A i \in 1..Len(C9_Order) : ~HoldsNumber(C9_Cell(i))
    /\ \A j \in 1..RayLength :
          /\ <<LabelAt[1], LabelAt[2] + j>> # pos => ~HoldsNumber(RightOf(j))
          /\ <<LabelAt[1] + j, LabelAt[2]>> # pos => ~HoldsNumber(Below(j))

\* C21: the ray search extracts numbers from strings as the eight offsets
\* do: a string with an embedded number 4 to 10 cells right of the label,
\* or 3 to 10 cells below it, that is the first (here: the only) candidate
\* is parsed and its number returned.
C21_RayParsesEmbedded ==
    phase = "extracted" =>
        /\ \A k \in 4..RayLength :
              (C21_Embedded(RightOf(k)) /\ C21_OnlyCandidate(<<LabelAt[1], LabelAt[2] + k>>))
                  => near.found /\ near.value = RightOf(k).v
        /\ \A k \in 3..RayLength :
              (C21_Embedded(Below(k)) /\ C21_OnlyCandidate(<<LabelAt[1] + k, LabelAt[2]>>))
                  => near.found /\ near.value = Below(k).v

\* C22: once a numeric field has a non-zero value after some sheet, no
\* later sheet changes it: it has that value after every following sheet
\* and in the data the scan ends with.
C22_ResolvedFieldIsKept ==
    (phase = "extracted" /\ workbook.readable) =>
        \A n \in 1..Len(workbook.sheets) : \A key \in DOMAIN search_patterns :
            DataAfter(workbook.sheets, n)[key] # 0 =>
                /\ \A m \in n..Len(workbook.sheets) :
                      DataAfter(workbook.sheets, m)[key] = DataAfter(workbook.sheets, n)[key]
                /\ extraction.scanned[key] = DataAfter(workbook.sheets, n)[key]

\* The first sheet gives npv 200, irr 15 and payback 6; the second sheet,
\* scanned on its own, would give 50, 11 and 10; the data has 200, 15, 6.
C22_Witness ==
    /\ phase = "extracted"
    /\ workbook.readable
    /\ Len(workbook.sheets) = 2
    /\ DataAfter(workbook.sheets, 1).npv = 200 * Unit
    /\ ScanSheet(workbook.sheets[2], FALSE, <<>>).npv = 50 * Unit
    /\ ScanSheet(workbook.sheets[2], FALSE, <<>>).payback_period = 10 * Unit
    /\ extraction.scanned.npv = 200 * Unit
    /\ extraction.scanned.payback_period = 6 * Unit

\* The probe of the three fixed cells with the rule of E15 applied to each:
\* a value in [0,1) is a fraction and is multiplied by 100, and the result
\* counts if it is within 0..100.
C23_SameRule(ws) ==
    IF ProbeE15(CellValue(ws, 15, 5)).found THEN ProbeE15(CellValue(ws, 15, 5))
    ELSE IF ProbeE15(CellValue(ws, 15, 4)).found THEN ProbeE15(CellValue(ws, 15, 4))
    ELSE ProbeE15(CellValue(ws, 16, 4))

\* C23: the probe of the first sheet treats E15, D15 and D16 alike: each
\* reads a value in [0,1) as a fraction and multiplies it by 100, and
\* accepts the result only within 0..100; so irr after the first sheet is
\* what that rule gives for the first of the three cells it accepts.
C23_ProbeCellsAlike ==
    (phase = "extracted" /\ workbook.readable /\ Len(workbook.sheets) > 0) =>
        (C23_SameRule(workbook.sheets[1]).found
            => DataAfter(workbook.sheets, 1).irr = C23_SameRule(workbook.sheets[1]).value)

\* C24: on the first sheet, when the probe of the fixed cells does not
\* give irr a value other than 0, the synonyms of irr are still searched
\* on that sheet: if they yield a value, irr has it after the first sheet.
C24_SynonymsAfterFailedProbe ==
    (phase = "extracted" /\ workbook.readable /\ Len(workbook.sheets) > 0) =>
        (( /\ ~IrrProbe(workbook.sheets[1]).found \/ IrrProbe(workbook.sheets[1]).value = 0
           /\ SynonymSearch(workbook.sheets[1], search_patterns.irr).found )
            => DataAfter(workbook.sheets, 1).irr =
                   SynonymSearch(workbook.sheets[1], search_patterns.irr).value)

\* What one synonym yields on a sheet: nothing if no cell contains it;
\* else the number the located cell itself holds, as a number or inside
\* its text; else what the proximity extractor finds at that cell.
C25_Yield(ws, pattern) ==
    LET located == find_cell_by_text(ws, pattern)
    IN  IF located = <<>> THEN Miss
        ELSE IF HoldsNumber(ws[located[1]]) THEN Hit(ws[located[1]].v)
        ELSE IF extract_value_near_cell(ws, located[1][1], located[1][2]).found
             THEN Hit(extract_value_near_cell(ws, located[1][1], located[1][2]).value)
        ELSE Miss

\* The synonyms tried one after the other from number i of the table on.
RECURSIVE C25_From(_, _, _)
C25_From(ws, patterns, i) ==
    IF i > Len(patterns) THEN Miss
    ELSE IF C25_Yield(ws, patterns[i]).found THEN C25_Yield(ws, patterns[i])
    ELSE C25_From(ws, patterns, i + 1)

\* The field is searched by synonyms on sheet n: it is not resolved by an
\* earlier sheet, nor by the probe of the fixed cells.
C25_Searched(n, key) ==
    /\ DataAfter(workbook.sheets, n - 1) = <<>>
           \/ DataAfter(workbook.sheets, n - 1)[key] = 0
    /\ ~(key = "irr" /\ n = 1 /\ IrrProbe(workbook.sheets[1]).found)

\* C25: for each field searched on a sheet the synonyms are tried in table
\* order and the first that yields a value decides: the located cell's own
\* number first, the proximity extractor otherwise; a synonym that is not
\* found, or found with no value, passes on to the next; when none yields
\* a value the field keeps what it had (0).
C25_FirstSynonymDecides ==
    (phase = "extracted" /\ workbook.readable) =>
        \A n \in 1..Len(workbook.sheets) : \A key \in DOMAIN search_patterns :
            C25_Searched(n, key) =>
                DataAfter(workbook.sheets, n)[key] =
                    C25_From(workbook.sheets[n], search_patterns[key], 1).value

\* On the only sheet the second synonym of the payback period (with 8)
\* stands above the first one (with 6): the first synonym decided.
C25_Witness ==
    /\ phase = "extracted"
    /\ workbook.readable
    /\ Len(workbook.sheets) = 1
    /\ C25_Searched(1, "payback_period")
    /\ find_cell_by_text(workbook.sheets[1], "period okupaemosti") = << <<4, 1>> >>
    /\ C25_Yield(workbook.sheets[1], "period okupaemosti") = Hit(8 * Unit)
    /\ find_cell_by_text(workbook.sheets[1], "srok okupaemosti") = << <<5, 1>> >>
    /\ extraction.scanned.payback_period = 6 * Unit

\* On the second sheet the first synonym stands alone with nothing near
\* it and the fourth one has 7 beside it: the fourth synonym decided.
C25_WitnessPassedOn ==
    /\ phase = "extracted"
    /\ workbook.readable
    /\ Len(workbook.sheets) = 2
    /\ C25_Searched(2, "payback_period")
    /\ find_cell_by_text(workbook.sheets[2], "srok okupaemosti") = << <<20, 20>> >>
    /\ ~C25_Yield(workbook.sheets[2], "srok okupaemosti").found
    /\ extraction.scanned.payback_period = 7 * Unit

\* The label itself holds the number ("IRR 15%"): the label's own number
\* was taken.
C25_WitnessOwnNumber ==
    /\ phase = "extracted"
    /\ workbook.readable
    /\ Len(workbook.sheets) = 1
    /\ C25_Searched(1, "irr")
    /\ find_cell_by_text(workbook.sheets[1], "irr") = << <<3, 1>> >>
    /\ C21_Embedded(workbook.sheets[1][<<3, 1>>])
    /\ extraction.scanned.irr = 15 * Unit


\* C26: the stages of a workflow run in the order extraction, analysis,
\* report, delivery, each only after the one before it succeeded; after a
\* failed extraction the workflow has ended, extraction was run once, no
\* analysis was requested and the workflow wrote no report.
C26_StagesInOrder ==
    \A w \in Workflows :
        LET stages == flow[w].stages
            order == <<"extraction", "analysis", "report", "delivery">>
        IN  /\ Len(stages) <= Len(order)
            /\ \A i \in 1..Len(stages) : stages[i].stage = order[i]
            /\ \A i \in 1..(Len(stages) - 1) : stages[i].ok
            /\ (Ran(stages, "extraction") /\ ~Succeeded(stages, "extraction"))
                => (/\ stages = <<Stage("extraction", FALSE)>>
                    /\ flow[w].pc = "done"
                    /\ flow[w].output_file_path = <<>>
                    /\ OutputPath(WorkflowTempPath(w, flow[w].file_name))
                           \notin flow[w].accessed)

\* A workflow was rejected at extraction, and another went through all four
\* stages.
C26_Witness ==
    \E w \in Workflows : \E v \in Workflows :
        /\ flow[w].pc = "done"
        /\ flow[w].stages = <<Stage("extraction", FALSE)>>
        /\ flow[v].pc = "done"
        /\ Len(flow[v].stages) = 4
        /\ flow[v].stages[4] = Stage("delivery", TRUE)

\* A workflow stopped after the analysis raised.
C26_WitnessAnalysisFailed ==
    \E w \in Workflows :
        flow[w].stages = <<Stage("extraction", TRUE), Stage("analysis", FALSE)>>


\* C27: create_risk_analysis_sheet does not raise while rendering a
\* RiskAnalysis that analyze_risks_with_fallback returned for a validated
\* remote reply.
C27_RemoteAnalysisRenders ==
    (/\ phase = "reported"
     /\ report_call.risk_analysis \in RemoteAnalyses
     /\ report.rendered.raised # "not run")
        => report.rendered.raised = "none"


\* C28: once a handler that had stored its upload has returned, the
\* temporary input file is gone (no other document being handled).
C28_TempRemovedAtReturn ==
    \A w \in Workflows :
        (/\ flow[w].pc = "done"
         /\ Ran(flow[w].stages, "extraction")
         /\ \A v \in Workflows \ {w} : flow[v].pc = "idle")
            => WorkflowTempPath(w, flow[w].file_name) \notin DOMAIN files

C29_PlaceholderOnlyLowOrMedium ==
    (fallback.called /\ fallback.result.risk_level \in {"High", "Critical"})
        => C19_Factors # <<C19_Placeholder>>

====
